---------------------------- MODULE Spec2Model ----------------------------
(***************************************************************************)
(* EMM procedure failure-rate analyzers of mobileinsight-core              *)
(* (src/mobile_insight/analyzer/kpi/*_fr_analyzer.py, detach_analyzer.py,  *)
(* identification_analyzer.py).                                            *)
(*                                                                         *)
(* A decoded message is a record [type_id, hasMsg, timestamp, fields]:     *)
(* fields is the document-order sequence that log_xml.iter("field")        *)
(* yields, each field a record of its XML attributes name, show, value and *)
(* showname (None when the attribute is absent).  Timestamps are whole     *)
(* seconds from the start of the trace; datetime.datetime.min is the       *)
(* instant DatetimeMin, far before any window.  Every analyzer is a record *)
(* of the attributes its __init__ sets, plus                               *)
(*   out : the store_kpi calls made while handling the last message,       *)
(*   exc : TRUE when the callback raised while handling the last message.  *)
(***************************************************************************)
EXTENDS Integers, Sequences, FiniteSets, TLC

VARIABLES enabled,   \* the analyzers the embedding program registered
          now,       \* timestamp of the last message the source delivered
          nmsgs,     \* number of messages delivered so far
          crashed,   \* a callback raised: the replay has stopped
          last,      \* the last message delivered (None before the first)
          lastpub,   \* KPI name -> value of the latest store_kpi call, or NoPub
          starts,    \* history: timestamps of the start events delivered in a row
          ident, sec, guti, auth, att, det, tau

vars == <<enabled, now, nmsgs, crashed, last, lastpub, starts,
          ident, sec, guti, auth, att, det, tau>>

-----------------------------------------------------------------------------
(* Bounds of the model *)

MaxMsgs == 4          \* messages per run in Spec
MaxStrikeMsgs == 7    \* messages per run in SpecStrikes
MaxHoMsgs == 3        \* messages per run in SpecHandover

-----------------------------------------------------------------------------
(* Python values *)

None == "None"
DatetimeMin == -2000000000

PyStr(x) == [tag |-> "str", val |-> x]
PyInt(n) == [tag |-> "int", val |-> n]
\* Python ==: values of different types are never equal
PyEq(a, b) == a.tag = b.tag /\ a.val = b.val

\* total_seconds() of (a - b)
Seconds(a, b) == a - b

Field(n, sh, v, sn) == [name |-> n, show |-> sh, value |-> v, showname |-> sn]

(* The substrings the analyzers look for.  Needles(s) is the set of them   *)
(* that occur in the string s; Lower(s) is s.lower().                      *)
Needles(s) ==
  CASE s = "Switch off: Switch off (1)"    -> {"Switch off"}
    [] s = "Switch off: Normal detach (0)" -> {"Switch off"}
    [] s = "GPRS Timer 2 - T3346 value"    -> {"T3346"}
    [] s = "reestablishmentCause: handoverFailure (1)" -> {"handoverFailure"}
    [] s = "Mobile Identity Type: no identity (0)" -> {"no identity"}
    [] s = "Mobile Identity Type: IMSI (1)" -> {"IMSI"}
    [] s = "Mobile Identity Type: IMEISV (3)" -> {"IMEISV"}
    [] s = "Mobile Identity Type: TMSI/P-TMSI/M-TMSI (4)" ->
                                             {"TMSI/P-TMSI/M-TMSI"}
    [] s = "detach type: re-attach required (1)" ->
                                 {"re-attach", "re-attach required"}
    [] s = "detach type: re-attach not required (2)" ->
                                 {"re-attach", "re-attach not required"}
    [] s = "detach type: imsi detach (3)" -> {"imsi detach"}
    [] OTHER -> {}

Lower(s) ==
  CASE s = "Detach Type: Re-attach required (1)" ->
                                 "detach type: re-attach required (1)"
    [] s = "Detach Type: Re-attach not required (2)" ->
                                 "detach type: re-attach not required (2)"
    [] s = "Detach Type: IMSI detach (3)" -> "detach type: imsi detach (3)"
    [] s = "Switch off: Switch off (1)" -> "switch off: switch off (1)"
    [] s = "Switch off: Normal detach (0)" -> "switch off: normal detach (0)"
    [] OTHER -> s

\* needle in s
Contains(needle, s) == needle \in Needles(s)

\* 0 <= delta <= window
InWindow(delta, window) == 0 <= delta /\ delta <= window

-----------------------------------------------------------------------------
(* What every analyzer record shares *)

NoneTs == -1       \* a timestamp attribute that holds None
NoLog == <<>>      \* a prev_log attribute that holds None (or False)
NoPub == -1        \* no store_kpi call so far under a name

Procs == {"Identification", "Security", "GUTI", "Authentication", "Detach", "TAU"}

\* the KPI name "KPI_Retainability_<proc>_<kind>_FAILURE"
Name(proc, kind) == [proc |-> proc, kind |-> kind]

\* self.store_kpi(name, value, curr_timestamp)
store_kpi(s, name, value) ==
  [s EXCEPT !.out = Append(@, [name |-> name, value |-> value])]

\* self.kpi_measurements["failure_number"][kind] += 1
Increment(s, kind) == [s EXCEPT !.kpi[kind] = @ + 1]

\* self.handover_timestamps[proc] = t
SetHandover(s, proc, t) == [s EXCEPT !.handover_timestamps[proc] = t]

\* an exception leaves the callback
Raise(s) == [s EXCEPT !.exc = TRUE]

\* max(self.handover_timestamps.values())
MaxTimestamp(ht) ==
  CHOOSE t \in {ht[p] : p \in DOMAIN ht} : \A q \in DOMAIN ht : ht[q] <= t

EmmType == "nas_eps.nas_msg_emm_type"
EmmCause == "nas_eps.emm.cause"

-----------------------------------------------------------------------------
(* TauFrAnalyzer (tau_fr_analyzer.py) *)

TauKinds == {"CONCURRENT", "PROTOCOL_ERROR", "TIMEOUT", "DETACH", "EMM", "HANDOVER"}
TauThreshold == 30
TauHandoverWindow == 600
StrikeLimit == 5

TauFr_init ==
  [pending_TAU |-> FALSE, accepting_TAU |-> FALSE,
   TAU_req_timestamp |-> NoneTs, TAU_accept_timestamp |-> NoneTs,
   timeouts |-> 0, prev_log |-> NoLog,
   handover_timestamps |-> [p \in Procs |-> DatetimeMin],
   kpi |-> [k \in TauKinds |-> 0], out |-> <<>>, exc |-> FALSE]

\* TauFr_reset_parameters leaving accepting_TAU as it is
TauFr_reset_parameters_keeps_accepting(s) ==
  [s EXCEPT !.timeouts = 0, !.pending_TAU = FALSE,
            !.TAU_req_timestamp = NoneTs, !.TAU_accept_timestamp = NoneTs,
            !.prev_log = NoLog, !.handover_timestamps["TAU"] = DatetimeMin]

TauFr_reset_parameters(s) ==
  [s EXCEPT !.timeouts = 0, !.pending_TAU = FALSE, !.accepting_TAU = FALSE,
            !.TAU_req_timestamp = NoneTs, !.TAU_accept_timestamp = NoneTs,
            !.prev_log = NoLog, !.handover_timestamps["TAU"] = DatetimeMin]

\* the value published under KPI_Retainability_TAU_DETACH_FAILURE by the
\* incoming-Detach path: the CONCURRENT counter
TauFr_in_detach_value(s) == s.kpi["CONCURRENT"]

\* one round of "for subfield in log_xml.iter('field')" of the incoming
\* Detach Request: both locals are set anew in every round
TauFr_detach_scan(loc, subfield) ==
  IF subfield.showname # None /\ Contains("re-attach", Lower(subfield.showname))
  THEN [detach_type |-> Lower(subfield.showname), cause_idx |-> PyInt(-1)]
  ELSE IF subfield.name = EmmCause
  THEN [detach_type |-> "", cause_idx |-> PyStr(subfield.show)]
  ELSE [detach_type |-> "", cause_idx |-> PyInt(-1)]

\* the locals detach_type and cause_idx after the loop over the fields
TauFr_detach_locals(fields) ==
  LET f[i \in 0..Len(fields)] ==
        IF i = 0 THEN [detach_type |-> "", cause_idx |-> PyInt(-1)]
        ELSE TauFr_detach_scan(f[i - 1], fields[i])
  IN  f[Len(fields)]

\* the condition of the "failure case" of an incoming Detach Request
DetachAbortCond(loc) ==
  \/ /\ Contains("re-attach not required", loc.detach_type)
     /\ ~PyEq(loc.cause_idx, PyInt(2))
  \/ Contains("re-attach required", loc.detach_type)

\* incoming 69: Detach request (network-initiated)
TauFr_in_detach_request(s, m) ==
  LET s1 == IF s.pending_TAU /\ s.TAU_req_timestamp # NoneTs
            THEN IF DetachAbortCond(TauFr_detach_locals(m.fields))
                 THEN LET a == Increment(s, "DETACH")
                      IN  TauFr_reset_parameters(
                            store_kpi(a, Name("TAU", "DETACH"),
                                      TauFr_in_detach_value(a)))
                 ELSE s
            ELSE s
  IN  SetHandover(s1, "Detach", m.timestamp)

\* if self.timeouts == 5: count TIMEOUT, publish, reset
TauFr_timeout_check(s) ==
  IF s.timeouts = StrikeLimit
  THEN LET a == Increment(s, "TIMEOUT")
       IN  TauFr_reset_parameters(
             store_kpi(a, Name("TAU", "TIMEOUT"), a.kpi["TIMEOUT"]))
  ELSE s

\* incoming 73: TAU accept
TauFr_in_accept(s, m) ==
  LET s1 == IF s.accepting_TAU /\ s.TAU_accept_timestamp # NoneTs
            THEN IF InWindow(Seconds(m.timestamp, s.TAU_accept_timestamp),
                             TauThreshold)
                 THEN [s EXCEPT !.timeouts = @ + 1]
                 ELSE [s EXCEPT !.timeouts = 0]
            ELSE s
      s2 == TauFr_timeout_check(s1)
  IN  [s2 EXCEPT !.accepting_TAU = TRUE, !.TAU_accept_timestamp = m.timestamp,
                 !.prev_log = m.fields, !.pending_TAU = FALSE,
                 !.TAU_req_timestamp = NoneTs,
                 !.handover_timestamps["TAU"] = m.timestamp]

ProtocolErrors == {"96", "99", "100", "111"}

\* the inner loop of a reject with cause 22: one EMM failure per field whose
\* showname contains "T3346"
TauFr_t3346(s, subfield) ==
  IF subfield.showname # None /\ Contains("T3346", subfield.showname)
  THEN LET a == Increment(s, "EMM")
       IN  store_kpi(a, Name("TAU", "EMM"), a.kpi["EMM"])
  ELSE s

\* incoming 75: one round of the loop over the cause fields
TauFr_reject_cause(s, subfield, fields) ==
  IF subfield.name # EmmCause THEN s
  ELSE IF subfield.show \in ProtocolErrors
  THEN LET a == Increment(s, "PROTOCOL_ERROR")
       IN  store_kpi(a, Name("TAU", "PROTOCOL_ERROR"), a.kpi["PROTOCOL_ERROR"])
  ELSE IF subfield.show = "22"
  THEN LET f[i \in 0..Len(fields)] ==
             IF i = 0 THEN s ELSE TauFr_t3346(f[i - 1], fields[i])
       IN  f[Len(fields)]
  ELSE LET a == Increment(s, "EMM")
       IN  store_kpi(a, Name("TAU", "EMM"), a.kpi["EMM"])

\* incoming 75: TAU reject
TauFr_in_reject(s, m) ==
  LET f[i \in 0..Len(m.fields)] ==
        IF i = 0 THEN s ELSE TauFr_reject_cause(f[i - 1], m.fields[i], m.fields)
  IN  TauFr_reset_parameters(f[Len(m.fields)])

\* the mandatory information elements of a TAU request: a dict from the
\* selected key to the field's showname, later fields overwriting earlier
TauFr_IE_key(field) ==
  IF field.name \in {"nas_eps.emm.esm_msg_cont", "nas_eps.emm.type_of_id",
                     "gsm_a.gm.gmm.ue_usage_setting"}
  THEN field.name
  ELSE IF field.show \in {"EPS mobile identity", "UE network capability",
                          "DRX parameter"}
  THEN field.show
  ELSE None

TauFr_IE(fields) ==
  LET f[i \in 0..Len(fields)] ==
        IF i = 0 THEN <<>>
        ELSE LET k == TauFr_IE_key(fields[i])
                 d == f[i - 1]
             IN  IF k = None THEN d
                 ELSE [x \in DOMAIN d \cup {k} |->
                         IF x = k THEN fields[i].showname ELSE d[x]]
  IN  f[Len(fields)]

\* prev_IE != curr_IE
DictDiffer(d1, d2) ==
  \/ DOMAIN d1 # DOMAIN d2
  \/ \E k \in DOMAIN d1 : d1[k] # d2[k]

\* TauFr_concurrent_check without the reset after the failure
TauFr_concurrent_check_no_reset(s, m) ==
  IF s.pending_TAU \/ s.accepting_TAU
  THEN LET ts == IF s.pending_TAU THEN s.TAU_req_timestamp
                 ELSE s.TAU_accept_timestamp
       IN  IF ts = NoneTs THEN Raise(s)
           ELSE IF InWindow(Seconds(m.timestamp, ts), TauThreshold)
           THEN IF s.prev_log = NoLog THEN Raise(s)
                ELSE IF DictDiffer(TauFr_IE(s.prev_log), TauFr_IE(m.fields))
                THEN LET a == Increment(s, "CONCURRENT")
                     IN  store_kpi(a, Name("TAU", "CONCURRENT"),
                                   a.kpi["CONCURRENT"])
                ELSE s
           ELSE s
  ELSE s

\* outgoing 72: the concurrent check of a TAU request
TauFr_concurrent_check(s, m) ==
  IF s.pending_TAU \/ s.accepting_TAU
  THEN LET ts == IF s.pending_TAU THEN s.TAU_req_timestamp
                 ELSE s.TAU_accept_timestamp
       IN  IF ts = NoneTs THEN Raise(s)
           ELSE IF InWindow(Seconds(m.timestamp, ts), TauThreshold)
           THEN IF s.prev_log = NoLog THEN Raise(s)
                ELSE IF DictDiffer(TauFr_IE(s.prev_log), TauFr_IE(m.fields))
                THEN LET a == Increment(s, "CONCURRENT")
                     IN  TauFr_reset_parameters(
                           store_kpi(a, Name("TAU", "CONCURRENT"),
                                     a.kpi["CONCURRENT"]))
                ELSE s
           ELSE s
  ELSE s

\* outgoing 72: the retransmit strike of a TAU request
TauFr_strike(s, m) ==
  IF s.TAU_req_timestamp # NoneTs /\ s.pending_TAU
  THEN IF InWindow(Seconds(m.timestamp, s.TAU_req_timestamp), TauThreshold)
       THEN [s EXCEPT !.timeouts = @ + 1]
       ELSE [s EXCEPT !.timeouts = 0]
  ELSE s

\* outgoing 72: TAU request
TauFr_out_request(s, m) ==
  LET s1 == TauFr_concurrent_check(s, m)
  IN  IF s1.exc THEN s1
      ELSE LET s2 == TauFr_timeout_check(TauFr_strike(s1, m))
           IN  [s2 EXCEPT !.pending_TAU = TRUE,
                          !.TAU_req_timestamp = m.timestamp,
                          !.prev_log = m.fields,
                          !.handover_timestamps["TAU"] = m.timestamp]

\* outgoing 69: one round of the search for "Switch off"
TauFr_switch_off(s, subfield) ==
  IF subfield.showname # None /\ Contains("Switch off", subfield.showname)
  THEN LET a == Increment(s, "DETACH")
       IN  TauFr_reset_parameters(
             store_kpi(a, Name("TAU", "DETACH"), a.kpi["DETACH"]))
  ELSE s

\* outgoing 69: Detach request (UE-initiated)
TauFr_out_detach_request(s, m) ==
  LET f[i \in 0..Len(m.fields)] ==
        IF i = 0 THEN s ELSE TauFr_switch_off(f[i - 1], m.fields[i])
      s1 == IF s.pending_TAU THEN f[Len(m.fields)] ELSE s
  IN  SetHandover(s1, "Detach", m.timestamp)

\* outgoing 74: TAU complete
TauFr_out_complete(s, m) ==
  IF s.TAU_accept_timestamp # NoneTs
     /\ InWindow(Seconds(m.timestamp, s.TAU_accept_timestamp), TauThreshold)
  THEN TauFr_reset_parameters(s)
  ELSE s

\* LTE_NAS_EMM_OTA_Incoming_Packet: the body of the loop over the fields
TauFr_incoming_field(s, field, m) ==
  IF field.name # EmmType THEN s
  ELSE LET s1 == IF field.show = "69" THEN TauFr_in_detach_request(s, m) ELSE s
       IN  CASE field.show = "70" -> SetHandover(s1, "Detach", DatetimeMin)
             [] field.show = "73" -> TauFr_in_accept(s1, m)
             [] field.show = "75" -> TauFr_in_reject(s1, m)
             [] field.show = "80" -> SetHandover(s1, "GUTI", m.timestamp)
             [] field.show = "82" -> SetHandover(s1, "Authentication", m.timestamp)
             [] field.show = "84" -> SetHandover(s1, "Authentication", DatetimeMin)
             [] field.show = "85" -> SetHandover(s1, "Identification", m.timestamp)
             [] field.show = "93" -> SetHandover(s1, "Security", m.timestamp)
             [] OTHER -> s1

\* LTE_NAS_EMM_OTA_Outgoing_Packet: the body of the loop over the fields
TauFr_outgoing_field(s, field, m) ==
  IF field.name # EmmType THEN s
  ELSE CASE field.show = "69" -> TauFr_out_detach_request(s, m)
         [] field.show = "70" -> SetHandover(s, "Detach", DatetimeMin)
         [] field.show = "72" -> TauFr_out_request(s, m)
         [] field.show = "74" -> TauFr_out_complete(s, m)
         [] field.show = "81" -> SetHandover(s, "GUTI", DatetimeMin)
         [] field.show \in {"83", "92"} ->
                                 SetHandover(s, "Authentication", DatetimeMin)
         [] field.show = "86" -> SetHandover(s, "Identification", DatetimeMin)
         [] field.show \in {"94", "95"} -> SetHandover(s, "Security", DatetimeMin)
         [] OTHER -> s

RrcCause == "lte-rrc.reestablishmentCause"

\* the handover is charged to this procedure
TauFr_handover_cond(s, m) ==
  /\ s.handover_timestamps["TAU"] = MaxTimestamp(s.handover_timestamps)
  /\ InWindow(Seconds(m.timestamp, s.handover_timestamps["TAU"]),
              TauHandoverWindow)

\* LTE_RRC_OTA_Packet: the body of the loop over the fields
TauFr_rrc_field(s, field, m) ==
  IF field.name # RrcCause THEN s
  ELSE IF field.showname = None THEN Raise(s)
  ELSE IF Contains("handoverFailure", field.showname) /\ TauFr_handover_cond(s, m)
  THEN LET a == Increment(s, "HANDOVER")
       IN  TauFr_reset_parameters(
             store_kpi(a, Name("TAU", "HANDOVER"), a.kpi["HANDOVER"]))
  ELSE s

\* TauFrAnalyzer.__emm_sr_callback(msg)
TauFr_emm_sr_callback(s0, m) ==
  LET s == [s0 EXCEPT !.out = <<>>, !.exc = FALSE]
      f[i \in 0..Len(m.fields)] ==
        IF i = 0 THEN s
        ELSE LET prev == f[i - 1]
             IN  IF prev.exc THEN prev
                 ELSE CASE m.type_id = "LTE_NAS_EMM_OTA_Incoming_Packet" ->
                             TauFr_incoming_field(prev, m.fields[i], m)
                        [] m.type_id = "LTE_NAS_EMM_OTA_Outgoing_Packet" ->
                             TauFr_outgoing_field(prev, m.fields[i], m)
                        [] m.type_id = "LTE_RRC_OTA_Packet" ->
                             TauFr_rrc_field(prev, m.fields[i], m)
                        [] OTHER -> prev
  IN  IF m.hasMsg THEN f[Len(m.fields)] ELSE s

-----------------------------------------------------------------------------
(* GutiReallocationFrAnalyzer (guti_reallocation_fr_analyzer.py) *)

GutiKinds == {"TIMEOUT", "COLLISION", "HANDOVER"}
GutiT3450 == 6
GutiThreshold == 30
GutiHandoverWindow == 600

GutiFr_init ==
  [guti_timestamp |-> NoneTs, pending_guti |-> FALSE, timeouts |-> 0,
   prev_log |-> NoLog,
   handover_timestamps |-> [p \in Procs |-> DatetimeMin],
   kpi |-> [k \in GutiKinds |-> 0], out |-> <<>>, exc |-> FALSE]

GutiFr_reset_parameters(s) ==
  [s EXCEPT !.pending_guti = FALSE, !.prev_log = NoLog, !.timeouts = 0,
            !.guti_timestamp = NoneTs,
            !.handover_timestamps["GUTI"] = DatetimeMin]

\* GutiFr_strike without the else branch that resets the strikes
GutiFr_strike_no_reset(s, m) ==
  IF s.pending_guti
  THEN IF s.guti_timestamp = NoneTs THEN Raise(s)
       ELSE IF InWindow(Seconds(m.timestamp, s.guti_timestamp), GutiT3450)
       THEN [s EXCEPT !.timeouts = @ + 1]
       ELSE s
  ELSE s

\* incoming 80: the retransmit strike
GutiFr_strike(s, m) ==
  IF s.pending_guti
  THEN IF s.guti_timestamp = NoneTs THEN Raise(s)
       ELSE IF InWindow(Seconds(m.timestamp, s.guti_timestamp), GutiT3450)
       THEN [s EXCEPT !.timeouts = @ + 1]
       ELSE [s EXCEPT !.timeouts = 0]
  ELSE s

GutiFr_timeout_check(s) ==
  IF s.timeouts = StrikeLimit
  THEN LET a == Increment(s, "TIMEOUT")
       IN  GutiFr_reset_parameters(
             store_kpi(a, Name("GUTI", "TIMEOUT"), a.kpi["TIMEOUT"]))
  ELSE s

\* GutiFr_in_command with the table entry taken from self.guti_timestamp
\* before that field is updated
GutiFr_in_command_stale(s, m) ==
  LET s1 == GutiFr_strike(s, m)
  IN  IF s1.exc THEN s1
      ELSE LET s2 == GutiFr_timeout_check(s1)
           IN  [s2 EXCEPT !.guti_timestamp = m.timestamp,
                          !.pending_guti = TRUE, !.prev_log = m.fields,
                          !.handover_timestamps["GUTI"] = s2.guti_timestamp]

\* incoming 80: GUTI command
GutiFr_in_command(s, m) ==
  LET s1 == GutiFr_strike(s, m)
  IN  IF s1.exc THEN s1
      ELSE LET s2 == GutiFr_timeout_check(s1)
           IN  [s2 EXCEPT !.guti_timestamp = m.timestamp,
                          !.pending_guti = TRUE, !.prev_log = m.fields,
                          !.handover_timestamps["GUTI"] = m.timestamp]

GutiFr_incoming_field(s, field, m) ==
  IF field.name # EmmType THEN s
  ELSE CASE field.show = "69" -> SetHandover(s, "Detach", m.timestamp)
         [] field.show = "70" -> SetHandover(s, "Detach", DatetimeMin)
         [] field.show = "75" -> SetHandover(s, "TAU", DatetimeMin)
         [] field.show = "80" -> GutiFr_in_command(s, m)
         [] field.show = "82" -> SetHandover(s, "Authentication", m.timestamp)
         [] field.show = "84" -> SetHandover(s, "Authentication", DatetimeMin)
         [] field.show = "85" -> SetHandover(s, "Identification", m.timestamp)
         [] field.show = "93" -> SetHandover(s, "Security", m.timestamp)
         [] OTHER -> s

\* outgoing 65, 69, 72, 255: Attach/detach/TAU/service request
\* GutiFr_out_request measuring the collision against the handover window
GutiFr_out_request_wide(s, field, m) ==
  LET s1 == IF /\ s.pending_guti
               /\ s.guti_timestamp # NoneTs
               /\ InWindow(Seconds(m.timestamp, s.guti_timestamp),
                           GutiHandoverWindow)
            THEN LET a == Increment(s, "COLLISION")
                 IN  GutiFr_reset_parameters(
                       store_kpi(a, Name("GUTI", "COLLISION"), a.kpi["COLLISION"]))
            ELSE s
  IN  IF field.show = "69" THEN SetHandover(s1, "Detach", m.timestamp)
      ELSE IF field.show = "72" THEN SetHandover(s1, "TAU", m.timestamp)
      ELSE s1

GutiFr_out_request(s, field, m) ==
  LET s1 == IF /\ s.pending_guti
               /\ s.guti_timestamp # NoneTs
               /\ InWindow(Seconds(m.timestamp, s.guti_timestamp), GutiThreshold)
            THEN LET a == Increment(s, "COLLISION")
                 IN  GutiFr_reset_parameters(
                       store_kpi(a, Name("GUTI", "COLLISION"), a.kpi["COLLISION"]))
            ELSE s
  IN  IF field.show = "69" THEN SetHandover(s1, "Detach", m.timestamp)
      ELSE IF field.show = "72" THEN SetHandover(s1, "TAU", m.timestamp)
      ELSE s1

GutiFr_outgoing_field(s, field, m) ==
  IF field.name # EmmType THEN s
  ELSE CASE field.show \in {"65", "69", "72", "255"} -> GutiFr_out_request(s, field, m)
         [] field.show = "70" -> SetHandover(s, "Detach", DatetimeMin)
         [] field.show = "74" -> SetHandover(s, "TAU", DatetimeMin)
         [] field.show = "81" -> GutiFr_reset_parameters(s)
         [] field.show \in {"83", "92"} ->
                                 SetHandover(s, "Authentication", DatetimeMin)
         [] field.show = "86" -> SetHandover(s, "Identification", DatetimeMin)
         [] field.show \in {"94", "95"} -> SetHandover(s, "Security", DatetimeMin)
         [] OTHER -> s

GutiFr_handover_cond(s, m) ==
  /\ s.handover_timestamps["GUTI"] = MaxTimestamp(s.handover_timestamps)
  /\ InWindow(Seconds(m.timestamp, s.handover_timestamps["GUTI"]),
              GutiHandoverWindow)

GutiFr_rrc_field(s, field, m) ==
  IF field.name # RrcCause THEN s
  ELSE IF field.showname = None THEN Raise(s)
  ELSE IF Contains("handoverFailure", field.showname) /\ GutiFr_handover_cond(s, m)
  THEN LET a == Increment(s, "HANDOVER")
       IN  GutiFr_reset_parameters(
             store_kpi(a, Name("GUTI", "HANDOVER"), a.kpi["HANDOVER"]))
  ELSE s

\* GutiReallocationFrAnalyzer.__emm_sr_callback(msg)
GutiFr_emm_sr_callback(s0, m) ==
  LET s == [s0 EXCEPT !.out = <<>>, !.exc = FALSE]
      f[i \in 0..Len(m.fields)] ==
        IF i = 0 THEN s
        ELSE LET prev == f[i - 1]
             IN  IF prev.exc THEN prev
                 ELSE CASE m.type_id = "LTE_NAS_EMM_OTA_Incoming_Packet" ->
                             GutiFr_incoming_field(prev, m.fields[i], m)
                        [] m.type_id = "LTE_NAS_EMM_OTA_Outgoing_Packet" ->
                             GutiFr_outgoing_field(prev, m.fields[i], m)
                        [] m.type_id = "LTE_RRC_OTA_Packet" ->
                             GutiFr_rrc_field(prev, m.fields[i], m)
                        [] OTHER -> prev
  IN  IF m.hasMsg THEN f[Len(m.fields)] ELSE s

-----------------------------------------------------------------------------
(* DetachAnalyzer (detach_analyzer.py) *)

DetachKinds == {"TIMEOUT", "COLLISION", "EMM", "HANDOVER"}
DetachThreshold == 60

Detach_init ==
  [detach_req_timestamp |-> NoneTs, pending_detach |-> FALSE, timeouts |-> 0,
   prev_log |-> NoLog,
   handover_timestamps |-> [p \in Procs |-> DatetimeMin],
   kpi |-> [k \in DetachKinds |-> 0], out |-> <<>>, exc |-> FALSE]

Detach_reset_parameters(s) ==
  [s EXCEPT !.timeouts = 0, !.pending_detach = FALSE, !.prev_log = NoLog,
            !.detach_req_timestamp = NoneTs,
            !.handover_timestamps["Detach"] = DatetimeMin]

\* Detach_emm_cause counting the cause without resetting the state
Detach_emm_cause_no_reset(s, subfield) ==
  IF subfield.name = EmmCause
  THEN LET a == Increment(s, "EMM")
       IN  store_kpi(a, Name("DETACH", "EMM"), a.kpi["EMM"])
  ELSE s

\* incoming 69: one round of the loop over the cause fields
Detach_emm_cause(s, subfield) ==
  IF subfield.name = EmmCause
  THEN LET a == Increment(s, "EMM")
       IN  Detach_reset_parameters(
             store_kpi(a, Name("DETACH", "EMM"), a.kpi["EMM"]))
  ELSE s

Detach_strike(s, m) ==
  IF s.detach_req_timestamp # NoneTs
  THEN IF InWindow(Seconds(m.timestamp, s.detach_req_timestamp), DetachThreshold)
       THEN [s EXCEPT !.timeouts = @ + 1]
       ELSE [s EXCEPT !.timeouts = 0]
  ELSE s

\* Detach_timeout_check testing for more than five strikes
Detach_timeout_check_above(s) ==
  IF s.timeouts > StrikeLimit
  THEN LET a == Increment(s, "TIMEOUT")
       IN  Detach_reset_parameters(
             store_kpi(a, Name("DETACH", "TIMEOUT"), a.kpi["TIMEOUT"]))
  ELSE s

Detach_timeout_check(s) ==
  IF s.timeouts = StrikeLimit
  THEN LET a == Increment(s, "TIMEOUT")
       IN  Detach_reset_parameters(
             store_kpi(a, Name("DETACH", "TIMEOUT"), a.kpi["TIMEOUT"]))
  ELSE s

\* the statements that end both Detach request branches
Detach_start(s, m) ==
  LET s1 == Detach_timeout_check(Detach_strike(s, m))
  IN  [s1 EXCEPT !.pending_detach = TRUE, !.detach_req_timestamp = m.timestamp,
                 !.prev_log = m.fields,
                 !.handover_timestamps["Detach"] = m.timestamp]

\* incoming 69: Detach request (network-initiated)
Detach_in_request(s, m) ==
  LET f[i \in 0..Len(m.fields)] ==
        IF i = 0 THEN s ELSE Detach_emm_cause(f[i - 1], m.fields[i])
  IN  Detach_start(f[Len(m.fields)], m)

Detach_incoming_field(s, field, m) ==
  IF field.name # EmmType THEN s
  ELSE CASE field.show = "69" -> Detach_in_request(s, m)
         [] field.show = "70" -> Detach_reset_parameters(s)
         [] field.show = "75" -> SetHandover(s, "TAU", DatetimeMin)
         [] field.show = "80" -> SetHandover(s, "GUTI", m.timestamp)
         [] field.show = "82" -> SetHandover(s, "Authentication", m.timestamp)
         [] field.show = "84" -> SetHandover(s, "Authentication", DatetimeMin)
         [] field.show = "85" -> SetHandover(s, "Identification", m.timestamp)
         [] field.show = "93" -> SetHandover(s, "Security", m.timestamp)
         [] OTHER -> s

\* one round of the loop over prev_log of an outgoing Attach (TAU) request;
\* types are the detach types that round looks for
Detach_scan(subfield, types) ==
  IF subfield.showname # None
  THEN IF \E t \in types : Contains(t, Lower(subfield.showname))
       THEN [detach_type |-> Lower(subfield.showname), cause_idx |-> PyInt(-1)]
       ELSE [detach_type |-> "", cause_idx |-> PyInt(-1)]
  ELSE IF subfield.name = EmmCause
  THEN [detach_type |-> "", cause_idx |-> PyStr(subfield.show)]
  ELSE [detach_type |-> "", cause_idx |-> PyInt(-1)]

Detach_locals(fields, types) ==
  LET f[i \in 0..Len(fields)] ==
        IF i = 0 THEN [detach_type |-> "", cause_idx |-> PyInt(-1)]
        ELSE Detach_scan(fields[i], types)
  IN  f[Len(fields)]

Detach_attach_cond(loc) ==
  \/ /\ Contains("re-attach not required", loc.detach_type)
     /\ ~PyEq(loc.cause_idx, PyInt(2))
  \/ /\ Contains("imsi detach", loc.detach_type)
     /\ ~PyEq(loc.cause_idx, PyInt(2))
  \/ Contains("re-attach required", loc.detach_type)

Detach_tau_cond(loc) ==
  \/ /\ Contains("re-attach not required", loc.detach_type)
     /\ PyEq(loc.cause_idx, PyInt(2))
  \/ Contains("imsi detach", loc.detach_type)

\* outgoing 65 (isTau = FALSE) and the first part of outgoing 72 (isTau = TRUE)
Detach_collision_check(s, m, isTau) ==
  IF /\ s.pending_detach
     /\ s.detach_req_timestamp # NoneTs
     /\ InWindow(Seconds(m.timestamp, s.detach_req_timestamp), DetachThreshold)
  THEN IF s.prev_log = NoLog THEN Raise(s)
       ELSE LET loc == IF isTau
                       THEN Detach_locals(s.prev_log,
                                          {"re-attach not required", "imsi detach"})
                       ELSE Detach_locals(s.prev_log, {"re-attach", "imsi detach"})
            IN  IF (IF isTau THEN Detach_tau_cond(loc) ELSE Detach_attach_cond(loc))
                THEN LET a == Increment(s, "COLLISION")
                     IN  Detach_reset_parameters(
                           store_kpi(a, Name("DETACH", "COLLISION"),
                                     a.kpi["COLLISION"]))
                ELSE s
  ELSE s

\* outgoing 72: Tracking Area Update request
Detach_out_tau_request(s, m) ==
  LET s1 == Detach_collision_check(s, m, TRUE)
  IN  IF s1.exc THEN s1 ELSE SetHandover(s1, "TAU", m.timestamp)

Detach_outgoing_field(s, field, m) ==
  IF field.name # EmmType THEN s
  ELSE CASE field.show = "65" -> Detach_collision_check(s, m, FALSE)
         [] field.show = "69" -> Detach_start(s, m)
         [] field.show = "70" -> Detach_reset_parameters(s)
         [] field.show = "72" -> Detach_out_tau_request(s, m)
         [] field.show = "74" -> SetHandover(s, "TAU", DatetimeMin)
         [] field.show = "81" -> SetHandover(s, "GUTI", DatetimeMin)
         [] field.show \in {"83", "92"} ->
                                 SetHandover(s, "Authentication", DatetimeMin)
         [] field.show = "86" -> SetHandover(s, "Identification", DatetimeMin)
         [] field.show \in {"94", "95"} -> SetHandover(s, "Security", DatetimeMin)
         [] OTHER -> s

\* Detach_handover_cond with the 600 s window of the other analyzers
Detach_handover_cond_wide(s, m) ==
  /\ s.handover_timestamps["Detach"] = MaxTimestamp(s.handover_timestamps)
  /\ InWindow(Seconds(m.timestamp, s.handover_timestamps["Detach"]),
              GutiHandoverWindow)

Detach_handover_cond(s, m) ==
  /\ s.handover_timestamps["Detach"] = MaxTimestamp(s.handover_timestamps)
  /\ InWindow(Seconds(m.timestamp, s.handover_timestamps["Detach"]),
              DetachThreshold)

Detach_rrc_field(s, field, m) ==
  IF field.name # RrcCause THEN s
  ELSE IF field.showname = None THEN Raise(s)
  ELSE IF Contains("handoverFailure", field.showname) /\ Detach_handover_cond(s, m)
  THEN LET a == Increment(s, "HANDOVER")
       IN  Detach_reset_parameters(
             store_kpi(a, Name("DETACH", "HANDOVER"), a.kpi["HANDOVER"]))
  ELSE s

\* DetachAnalyzer.__emm_sr_callback(msg)
Detach_emm_sr_callback(s0, m) ==
  LET s == [s0 EXCEPT !.out = <<>>, !.exc = FALSE]
      f[i \in 0..Len(m.fields)] ==
        IF i = 0 THEN s
        ELSE LET prev == f[i - 1]
             IN  IF prev.exc THEN prev
                 ELSE CASE m.type_id = "LTE_NAS_EMM_OTA_Incoming_Packet" ->
                             Detach_incoming_field(prev, m.fields[i], m)
                        [] m.type_id = "LTE_NAS_EMM_OTA_Outgoing_Packet" ->
                             Detach_outgoing_field(prev, m.fields[i], m)
                        [] m.type_id = "LTE_RRC_OTA_Packet" ->
                             Detach_rrc_field(prev, m.fields[i], m)
                        [] OTHER -> prev
  IN  IF m.hasMsg THEN f[Len(m.fields)] ELSE s

-----------------------------------------------------------------------------
(* SecurityModeControlFrAnalyzer (security_mode_control_fr_analyzer.py) *)

SecurityKinds == {"TRANSMISSION_TAU", "TRANSMISSION_SERVICE", "TIMEOUT",
                  "COLLISION", "HANDOVER"}
SecurityThreshold == 30
SecurityHandoverWindow == 600

SecurityFr_init ==
  [security_mode_timestamp |-> NoneTs, pending_security_mode |-> FALSE,
   pending_service |-> FALSE, pending_TAU |-> FALSE, timeouts |-> 0,
   prev_log |-> NoLog,
   handover_timestamps |-> [p \in Procs |-> DatetimeMin],
   kpi |-> [k \in SecurityKinds |-> 0], out |-> <<>>, exc |-> FALSE]

SecurityFr_reset_parameters(s) ==
  [s EXCEPT !.timeouts = 0, !.pending_security_mode = FALSE,
            !.pending_service = FALSE, !.pending_TAU = FALSE,
            !.prev_log = NoLog, !.security_mode_timestamp = NoneTs,
            !.handover_timestamps["Security"] = DatetimeMin]

SecurityFr_fail(s, kind) ==
  LET a == Increment(s, kind)
  IN  SecurityFr_reset_parameters(
        store_kpi(a, Name("SECURITY", kind), a.kpi[kind]))

\* incoming 93: the three-way branch on the pending flags; the local delta
\* is unbound when the timestamp is None
SecurityFr_retransmit(s, m) ==
  IF ~s.pending_security_mode THEN s
  ELSE IF s.security_mode_timestamp = NoneTs THEN Raise(s)
  ELSE LET in == InWindow(Seconds(m.timestamp, s.security_mode_timestamp),
                          SecurityThreshold)
       IN  IF s.pending_service
           THEN IF in THEN SecurityFr_fail(s, "TRANSMISSION_SERVICE") ELSE s
           ELSE IF s.pending_TAU
           THEN IF in THEN SecurityFr_fail(s, "TRANSMISSION_TAU") ELSE s
           ELSE IF in THEN [s EXCEPT !.timeouts = @ + 1]
                ELSE [s EXCEPT !.timeouts = 0]

SecurityFr_timeout_check(s) ==
  IF s.timeouts = StrikeLimit THEN SecurityFr_fail(s, "TIMEOUT") ELSE s

\* SecurityFr_in_command returning right after a failure reset the state
SecurityFr_in_command_returns(s, m) ==
  LET s1 == SecurityFr_retransmit(s, m)
  IN  IF s1.exc THEN s1
      ELSE LET s2 == SecurityFr_timeout_check(s1)
           IN  IF Len(s2.out) > Len(s.out) THEN s2
               ELSE [s2 EXCEPT !.security_mode_timestamp = m.timestamp,
                               !.pending_security_mode = TRUE,
                               !.prev_log = m.fields,
                               !.handover_timestamps["Security"] = m.timestamp]

\* incoming 93: Security mode request
SecurityFr_in_command(s, m) ==
  LET s1 == SecurityFr_retransmit(s, m)
  IN  IF s1.exc THEN s1
      ELSE LET s2 == SecurityFr_timeout_check(s1)
           IN  [s2 EXCEPT !.security_mode_timestamp = m.timestamp,
                          !.pending_security_mode = TRUE,
                          !.prev_log = m.fields,
                          !.handover_timestamps["Security"] = m.timestamp]

SecurityFr_incoming_field(s, field, m) ==
  IF field.name # EmmType THEN s
  ELSE CASE field.show = "69" -> SetHandover(s, "Detach", m.timestamp)
         [] field.show = "70" -> SetHandover(s, "Detach", DatetimeMin)
         [] field.show = "75" ->
              SetHandover([s EXCEPT !.pending_TAU = FALSE], "TAU", DatetimeMin)
         [] field.show \in {"78", "79"} -> [s EXCEPT !.pending_service = FALSE]
         [] field.show = "80" -> SetHandover(s, "GUTI", m.timestamp)
         [] field.show = "82" -> SetHandover(s, "Authentication", m.timestamp)
         [] field.show = "84" -> SetHandover(s, "Authentication", DatetimeMin)
         [] field.show = "85" -> SetHandover(s, "Identification", m.timestamp)
         [] field.show = "93" -> SecurityFr_in_command(s, m)
         [] OTHER -> s

\* outgoing 65, 72, 255: Attach/TAU/service request
SecurityFr_out_request(s, field, m) ==
  LET s1 == IF /\ s.pending_security_mode
               /\ s.security_mode_timestamp # NoneTs
               /\ InWindow(Seconds(m.timestamp, s.security_mode_timestamp),
                           SecurityThreshold)
            THEN SecurityFr_fail(s, "COLLISION")
            ELSE s
  IN  IF field.show = "72" /\ ~s1.pending_security_mode
      THEN [s1 EXCEPT !.pending_TAU = TRUE]
      ELSE s1

\* outgoing 69: one round of the loop over the subfields
SecurityFr_not_switch_off(s, subfield) ==
  IF subfield.showname # None /\ ~Contains("Switch off", subfield.showname)
  THEN SecurityFr_fail(s, "COLLISION")
  ELSE s

\* outgoing 69: Detach request (UE-initiated)
SecurityFr_out_detach_request(s, m) ==
  LET f[i \in 0..Len(m.fields)] ==
        IF i = 0 THEN s ELSE SecurityFr_not_switch_off(f[i - 1], m.fields[i])
      s1 == IF /\ s.pending_security_mode
               /\ s.security_mode_timestamp # NoneTs
               /\ InWindow(Seconds(m.timestamp, s.security_mode_timestamp),
                           SecurityThreshold)
            THEN f[Len(m.fields)]
            ELSE s
  IN  SetHandover(s1, "Detach", m.timestamp)

\* the if/elif chain of the outgoing branch, in the order of the source: the
\* first arm takes 72 and 255, so the later arms for them are never reached
SecurityFr_outgoing_field(s, field, m) ==
  IF field.name # EmmType THEN s
  ELSE IF field.show \in {"65", "72", "255"} THEN SecurityFr_out_request(s, field, m)
  ELSE IF field.show = "69" THEN SecurityFr_out_detach_request(s, m)
  ELSE IF field.show = "70" THEN SetHandover(s, "Detach", m.timestamp)
  ELSE IF field.show = "72"
  THEN SetHandover(IF ~s.pending_security_mode
                   THEN [s EXCEPT !.pending_TAU = TRUE] ELSE s,
                   "TAU", m.timestamp)
  ELSE IF field.show = "74"
  THEN SetHandover([s EXCEPT !.pending_TAU = FALSE], "TAU", DatetimeMin)
  ELSE IF field.show = "81" THEN SetHandover(s, "GUTI", DatetimeMin)
  ELSE IF field.show \in {"83", "92"}
  THEN SetHandover(s, "Authentication", DatetimeMin)
  ELSE IF field.show = "86" THEN SetHandover(s, "Identification", DatetimeMin)
  ELSE IF field.show \in {"94", "95"} THEN SecurityFr_reset_parameters(s)
  ELSE IF field.show = "255" /\ ~s.pending_security_mode
  THEN [s EXCEPT !.pending_service = TRUE]
  ELSE s

SecurityFr_handover_cond(s, m) ==
  /\ s.handover_timestamps["Security"] = MaxTimestamp(s.handover_timestamps)
  /\ InWindow(Seconds(m.timestamp, s.handover_timestamps["Security"]),
              SecurityHandoverWindow)

SecurityFr_rrc_field(s, field, m) ==
  IF field.name # RrcCause THEN s
  ELSE IF field.showname = None THEN Raise(s)
  ELSE IF Contains("handoverFailure", field.showname)
          /\ SecurityFr_handover_cond(s, m)
  THEN SecurityFr_fail(s, "HANDOVER")
  ELSE s

\* SecurityModeControlFrAnalyzer.__emm_sr_callback(msg)
SecurityFr_emm_sr_callback(s0, m) ==
  LET s == [s0 EXCEPT !.out = <<>>, !.exc = FALSE]
      f[i \in 0..Len(m.fields)] ==
        IF i = 0 THEN s
        ELSE LET prev == f[i - 1]
             IN  IF prev.exc THEN prev
                 ELSE CASE m.type_id = "LTE_NAS_EMM_OTA_Incoming_Packet" ->
                             SecurityFr_incoming_field(prev, m.fields[i], m)
                        [] m.type_id = "LTE_NAS_EMM_OTA_Outgoing_Packet" ->
                             SecurityFr_outgoing_field(prev, m.fields[i], m)
                        [] m.type_id = "LTE_RRC_OTA_Packet" ->
                             SecurityFr_rrc_field(prev, m.fields[i], m)
                        [] OTHER -> prev
  IN  IF m.hasMsg THEN f[Len(m.fields)] ELSE s

-----------------------------------------------------------------------------
(* AuthFrAnalyzer (auth_fr_analyzer.py) *)

AuthKinds == {"TIMEOUT", "MAC", "SYNCH", "NON_EPS", "EMM", "TRANSMISSION_TAU",
              "TRANSMISSION_SERVICE", "HANDOVER"}
AuthThreshold == 30
AuthHandoverWindow == 600

AuthFr_init ==
  [auth_timestamp |-> NoneTs, pending_auth |-> FALSE, pending_TAU |-> FALSE,
   pending_service |-> FALSE, timeouts |-> 0, prev_log |-> NoLog,
   handover_timestamps |-> [p \in Procs |-> DatetimeMin],
   kpi |-> [k \in AuthKinds |-> 0], out |-> <<>>, exc |-> FALSE]

\* AuthFr_reset_parameters leaving the table entry as it is
AuthFr_reset_parameters_keeps_entry(s) ==
  [s EXCEPT !.pending_auth = FALSE, !.pending_service = FALSE,
            !.pending_TAU = FALSE, !.prev_log = NoLog, !.timeouts = 0,
            !.auth_timestamp = NoneTs]

AuthFr_reset_parameters(s) ==
  [s EXCEPT !.pending_auth = FALSE, !.pending_service = FALSE,
            !.pending_TAU = FALSE, !.prev_log = NoLog, !.timeouts = 0,
            !.auth_timestamp = NoneTs,
            !.handover_timestamps["Authentication"] = DatetimeMin]

\* the counter whose value the timeout publication carries
AuthFr_timeout_value(s) == s.kpi["TIMEOUT"]

AuthFr_fail(s, kind) ==
  LET a == Increment(s, kind)
  IN  AuthFr_reset_parameters(store_kpi(a, Name("AUTH", kind), a.kpi[kind]))

\* incoming 82: the three-way branch on the pending flags
AuthFr_retransmit(s, m) ==
  IF ~s.pending_auth THEN s
  ELSE IF s.auth_timestamp = NoneTs THEN Raise(s)
  ELSE LET in == InWindow(Seconds(m.timestamp, s.auth_timestamp), AuthThreshold)
       IN  IF s.pending_service
           THEN IF in THEN AuthFr_fail(s, "TRANSMISSION_SERVICE") ELSE s
           ELSE IF s.pending_TAU
           THEN IF in THEN AuthFr_fail(s, "TRANSMISSION_TAU") ELSE s
           ELSE IF in THEN [s EXCEPT !.timeouts = @ + 1]
                ELSE [s EXCEPT !.timeouts = 0]

AuthFr_timeout_check(s) ==
  IF s.timeouts = StrikeLimit
  THEN LET a == Increment(s, "TIMEOUT")
       IN  AuthFr_reset_parameters(
             store_kpi(a, Name("AUTH", "TIMEOUT"), AuthFr_timeout_value(a)))
  ELSE s

\* incoming 82: Authentication request
AuthFr_in_request(s, m) ==
  LET s1 == AuthFr_retransmit(s, m)
  IN  IF s1.exc THEN s1
      ELSE LET s2 == AuthFr_timeout_check(s1)
           IN  [s2 EXCEPT !.auth_timestamp = m.timestamp, !.pending_auth = TRUE,
                          !.prev_log = m.fields,
                          !.handover_timestamps["Authentication"] = m.timestamp]

AuthFr_incoming_field(s, field, m) ==
  IF field.name # EmmType THEN s
  ELSE CASE field.show = "69" -> SetHandover(s, "Detach", m.timestamp)
         [] field.show = "70" -> SetHandover(s, "Detach", DatetimeMin)
         [] field.show = "75" ->
              SetHandover([s EXCEPT !.pending_TAU = FALSE], "Detach", DatetimeMin)
         [] field.show \in {"78", "79"} -> [s EXCEPT !.pending_service = FALSE]
         [] field.show = "80" -> SetHandover(s, "GUTI", m.timestamp)
         [] field.show = "82" -> AuthFr_in_request(s, m)
         [] field.show = "84" -> AuthFr_reset_parameters(s)
         [] field.show = "85" -> SetHandover(s, "Identification", m.timestamp)
         [] field.show = "93" -> SetHandover(s, "Security", m.timestamp)
         [] OTHER -> s

\* the counter an Authentication failure cause is charged to
\* AuthFr_cause_kind without the arm for cause 26
AuthFr_cause_kind_no_non_eps(cause_idx) ==
  CASE cause_idx = "20" -> "MAC"
    [] cause_idx = "21" -> "SYNCH"
    [] OTHER -> "EMM"

AuthFr_cause_kind(cause_idx) ==
  CASE cause_idx = "20" -> "MAC"
    [] cause_idx = "21" -> "SYNCH"
    [] cause_idx = "26" -> "NON_EPS"
    [] OTHER -> "EMM"

\* outgoing 92: one round of the loop over the cause fields
AuthFr_failure_cause(s, child_field) ==
  IF child_field.name = EmmCause
  THEN LET kind == AuthFr_cause_kind(child_field.show)
           a == Increment(s, kind)
       IN  store_kpi(a, Name("AUTH", kind), a.kpi[kind])
  ELSE s

\* outgoing 92: Auth failure
AuthFr_out_failure(s, m) ==
  LET f[i \in 0..Len(m.fields)] ==
        IF i = 0 THEN s ELSE AuthFr_failure_cause(f[i - 1], m.fields[i])
  IN  AuthFr_reset_parameters(f[Len(m.fields)])

AuthFr_outgoing_field(s, field, m) ==
  IF field.name # EmmType THEN s
  ELSE CASE field.show = "69" -> SetHandover(s, "Detach", m.timestamp)
         [] field.show = "70" -> SetHandover(s, "Detach", DatetimeMin)
         [] field.show = "72" ->
              SetHandover(IF ~s.pending_auth THEN [s EXCEPT !.pending_TAU = TRUE]
                          ELSE s, "TAU", m.timestamp)
         [] field.show = "74" ->
              SetHandover([s EXCEPT !.pending_TAU = FALSE], "TAU", DatetimeMin)
         [] field.show = "81" -> SetHandover(s, "GUTI", DatetimeMin)
         [] field.show = "83" -> AuthFr_reset_parameters(s)
         [] field.show = "86" -> SetHandover(s, "Identification", DatetimeMin)
         [] field.show = "92" -> AuthFr_out_failure(s, m)
         [] field.show \in {"94", "95"} -> SetHandover(s, "Security", DatetimeMin)
         [] field.show = "255" /\ ~s.pending_auth ->
              [s EXCEPT !.pending_service = TRUE]
         [] OTHER -> s

AuthFr_handover_cond(s, m) ==
  /\ s.handover_timestamps["Authentication"] = MaxTimestamp(s.handover_timestamps)
  /\ InWindow(Seconds(m.timestamp, s.handover_timestamps["Authentication"]),
              AuthHandoverWindow)

AuthFr_rrc_field(s, field, m) ==
  IF field.name # RrcCause THEN s
  ELSE IF field.showname = None THEN Raise(s)
  ELSE IF Contains("handoverFailure", field.showname) /\ AuthFr_handover_cond(s, m)
  THEN AuthFr_fail(s, "HANDOVER")
  ELSE s

\* AuthFrAnalyzer.__emm_sr_callback(msg)
AuthFr_emm_sr_callback(s0, m) ==
  LET s == [s0 EXCEPT !.out = <<>>, !.exc = FALSE]
      f[i \in 0..Len(m.fields)] ==
        IF i = 0 THEN s
        ELSE LET prev == f[i - 1]
             IN  IF prev.exc THEN prev
                 ELSE CASE m.type_id = "LTE_NAS_EMM_OTA_Incoming_Packet" ->
                             AuthFr_incoming_field(prev, m.fields[i], m)
                        [] m.type_id = "LTE_NAS_EMM_OTA_Outgoing_Packet" ->
                             AuthFr_outgoing_field(prev, m.fields[i], m)
                        [] m.type_id = "LTE_RRC_OTA_Packet" ->
                             AuthFr_rrc_field(prev, m.fields[i], m)
                        [] OTHER -> prev
  IN  IF m.hasMsg THEN f[Len(m.fields)] ELSE s

-----------------------------------------------------------------------------
(* IdentificationAnalyzer (identification_analyzer.py) *)

IdentifyKinds == {"COLLISION", "TRANSMISSION_TAU", "TRANSMISSION_SERVICE",
                  "TIMEOUT", "CONCURRENT", "UNAVAILABLE", "HANDOVER"}
IdentifyThreshold == 30
IdentifyHandoverWindow == 600

Identification_init ==
  [identify_req_timestamp |-> NoneTs, pending_id |-> FALSE,
   pending_attach |-> FALSE, pending_service |-> FALSE, pending_TAU |-> FALSE,
   timeouts |-> 0, prev_attach_log |-> NoLog, attach_req_timestamp |-> NoneTs,
   handover_timestamps |-> [p \in Procs |-> DatetimeMin],
   kpi |-> [k \in IdentifyKinds |-> 0], out |-> <<>>, exc |-> FALSE]

Identification_reset_parameters(s) ==
  [s EXCEPT !.timeouts = 0, !.pending_id = FALSE, !.pending_attach = FALSE,
            !.pending_service = FALSE, !.pending_TAU = FALSE,
            !.prev_attach_log = NoLog, !.identify_req_timestamp = NoneTs,
            !.handover_timestamps["Identification"] = DatetimeMin]

Identification_fail(s, kind) ==
  LET a == Increment(s, kind)
  IN  Identification_reset_parameters(
        store_kpi(a, Name("IDENTIFY", kind), a.kpi[kind]))

\* Identification_retransmit testing the TAU Request before the Service
\* Request
Identification_retransmit_tau_first(s, m) ==
  LET ts == s.identify_req_timestamp
      in == InWindow(Seconds(m.timestamp, ts), IdentifyThreshold)
  IN  IF s.pending_id /\ s.pending_TAU
      THEN IF ts = NoneTs THEN Raise(s)
           ELSE IF in THEN Identification_fail(s, "TRANSMISSION_TAU") ELSE s
      ELSE IF s.pending_id /\ s.pending_service
      THEN IF ts = NoneTs THEN Raise(s)
           ELSE IF in THEN Identification_fail(s, "TRANSMISSION_SERVICE") ELSE s
      ELSE IF ts # NoneTs /\ s.pending_id
      THEN IF in THEN [s EXCEPT !.timeouts = @ + 1]
           ELSE [s EXCEPT !.timeouts = 0]
      ELSE s

\* incoming 85: the three-way branch on the pending flags
Identification_retransmit(s, m) ==
  LET ts == s.identify_req_timestamp
      in == InWindow(Seconds(m.timestamp, ts), IdentifyThreshold)
  IN  IF s.pending_id /\ s.pending_service
      THEN IF ts = NoneTs THEN Raise(s)
           ELSE IF in THEN Identification_fail(s, "TRANSMISSION_SERVICE") ELSE s
      ELSE IF s.pending_id /\ s.pending_TAU
      THEN IF ts = NoneTs THEN Raise(s)
           ELSE IF in THEN Identification_fail(s, "TRANSMISSION_TAU") ELSE s
      ELSE IF ts # NoneTs /\ s.pending_id
      THEN IF in THEN [s EXCEPT !.timeouts = @ + 1]
           ELSE [s EXCEPT !.timeouts = 0]
      ELSE s

Identification_timeout_check(s) ==
  IF s.timeouts = StrikeLimit THEN Identification_fail(s, "TIMEOUT") ELSE s

\* Identification_in_request returning once the TIMEOUT failure is stored
Identification_in_request_returns(s, m) ==
  LET s1 == Identification_retransmit(s, m)
  IN  IF s1.exc THEN s1
      ELSE LET s2 == Identification_timeout_check(s1)
           IN  IF s2.out # s1.out THEN s2
               ELSE [s2 EXCEPT !.pending_id = TRUE,
                               !.identify_req_timestamp = m.timestamp,
                               !.handover_timestamps["Identification"] = m.timestamp]

\* incoming 85: identification request
Identification_in_request(s, m) ==
  LET s1 == Identification_retransmit(s, m)
  IN  IF s1.exc THEN s1
      ELSE LET s2 == Identification_timeout_check(s1)
           IN  [s2 EXCEPT !.pending_id = TRUE,
                          !.identify_req_timestamp = m.timestamp,
                          !.handover_timestamps["Identification"] = m.timestamp]

Identification_incoming_field(s, field, m) ==
  IF field.name # EmmType THEN s
  ELSE CASE field.show = "68" -> [s EXCEPT !.pending_attach = FALSE]
         [] field.show = "69" -> SetHandover(s, "Detach", m.timestamp)
         [] field.show = "70" -> SetHandover(s, "Detach", DatetimeMin)
         [] field.show = "75" ->
              SetHandover([s EXCEPT !.pending_TAU = FALSE], "TAU", DatetimeMin)
         [] field.show \in {"78", "79"} -> [s EXCEPT !.pending_service = FALSE]
         [] field.show = "80" -> SetHandover(s, "GUTI", m.timestamp)
         [] field.show = "82" -> SetHandover(s, "Authentication", m.timestamp)
         [] field.show = "84" -> SetHandover(s, "Authentication", DatetimeMin)
         [] field.show = "85" -> Identification_in_request(s, m)
         [] field.show = "93" -> SetHandover(s, "Security", m.timestamp)
         [] OTHER -> s

\* the mandatory information elements of an Attach request
Identification_IE(fields) ==
  LET keys == {"gsm_a.L3_protocol_discriminator", "nas_eps.security_header_type",
               "nas_eps.nas_msg_emm_type", "nas_eps.emm.eps_att_type",
               "nas_eps.emm.nas_key_set_id", "nas_eps.emm.type_of_id",
               "nas_eps.emm.esm_msg_cont"}
      f[i \in 0..Len(fields)] ==
        IF i = 0 THEN <<>>
        ELSE LET k == fields[i].name
                 d == f[i - 1]
             IN  IF k \notin keys THEN d
                 ELSE [x \in DOMAIN d \cup {k} |->
                         IF x = k THEN fields[i].showname ELSE d[x]]
  IN  f[Len(fields)]

\* Identification_attach_check counting the collision whatever the delay
Identification_attach_check_unwindowed(s, m) ==
  IF ~s.pending_id THEN s
  ELSE IF s.identify_req_timestamp = NoneTs THEN Raise(s)
  ELSE LET in == InWindow(Seconds(m.timestamp, s.identify_req_timestamp),
                          IdentifyThreshold)
       IN  IF ~s.pending_attach
           THEN Identification_fail(s, "COLLISION")
           ELSE IF ~in THEN s
           ELSE IF s.prev_attach_log = NoLog THEN Raise(s)
           ELSE IF DictDiffer(Identification_IE(s.prev_attach_log),
                              Identification_IE(m.fields))
           THEN Identification_fail(s, "CONCURRENT")
           ELSE s

\* outgoing 65: the collision / concurrent branch of an Attach request
Identification_attach_check(s, m) ==
  IF ~s.pending_id THEN s
  ELSE IF s.identify_req_timestamp = NoneTs THEN Raise(s)
  ELSE LET in == InWindow(Seconds(m.timestamp, s.identify_req_timestamp),
                          IdentifyThreshold)
       IN  IF ~s.pending_attach
           THEN IF in THEN Identification_fail(s, "COLLISION") ELSE s
           ELSE IF ~in THEN s
           ELSE IF s.prev_attach_log = NoLog THEN Raise(s)
           ELSE IF DictDiffer(Identification_IE(s.prev_attach_log),
                              Identification_IE(m.fields))
           THEN Identification_fail(s, "CONCURRENT")
           ELSE s

\* outgoing 65: Attach request
Identification_out_attach_request(s, m) ==
  LET s1 == Identification_attach_check(s, m)
  IN  IF s1.exc THEN s1
      ELSE [s1 EXCEPT !.attach_req_timestamp = m.timestamp,
                      !.pending_attach = TRUE, !.prev_attach_log = m.fields]

\* outgoing 69: one round of the search for "Switch off"
Identification_switch_off(s, subfield) ==
  IF subfield.showname # None /\ Contains("Switch off", subfield.showname)
  THEN Identification_fail(s, "COLLISION")
  ELSE s

\* outgoing 69: Detach request (UE-initiated)
Identification_out_detach_request(s, m) ==
  LET f[i \in 0..Len(m.fields)] ==
        IF i = 0 THEN s ELSE Identification_switch_off(f[i - 1], m.fields[i])
  IN  IF ~s.pending_id THEN s
      ELSE IF s.identify_req_timestamp = NoneTs THEN Raise(s)
      ELSE IF InWindow(Seconds(m.timestamp, s.identify_req_timestamp),
                       IdentifyThreshold)
      THEN f[Len(m.fields)]
      ELSE s

\* Identification_outgoing_emm noting a TAU Request whether or not an
\* Identification is pending
Identification_outgoing_emm_any_tau(s, field, m) ==
  CASE field.show = "65" -> Identification_out_attach_request(s, m)
    [] field.show = "67" ->
         [s EXCEPT !.pending_attach = FALSE, !.prev_attach_log = NoLog,
                   !.attach_req_timestamp = NoneTs]
    [] field.show = "69" -> Identification_out_detach_request(s, m)
    [] field.show = "70" -> SetHandover(s, "Detach", DatetimeMin)
    [] field.show = "72" ->
         SetHandover([s EXCEPT !.pending_TAU = TRUE], "TAU", m.timestamp)
    [] field.show = "74" ->
         SetHandover([s EXCEPT !.pending_TAU = FALSE], "TAU", DatetimeMin)
    [] field.show = "81" -> SetHandover(s, "GUTI", DatetimeMin)
    [] field.show \in {"83", "92"} -> SetHandover(s, "Authentication", DatetimeMin)
    [] field.show = "86" -> Identification_reset_parameters(s)
    [] field.show \in {"94", "95"} -> SetHandover(s, "Security", DatetimeMin)
    [] field.show = "255" /\ ~s.pending_id -> [s EXCEPT !.pending_service = TRUE]
    [] OTHER -> s

Identification_outgoing_emm(s, field, m) ==
  CASE field.show = "65" -> Identification_out_attach_request(s, m)
    [] field.show = "67" ->
         [s EXCEPT !.pending_attach = FALSE, !.prev_attach_log = NoLog,
                   !.attach_req_timestamp = NoneTs]
    [] field.show = "69" -> Identification_out_detach_request(s, m)
    [] field.show = "70" -> SetHandover(s, "Detach", DatetimeMin)
    [] field.show = "72" ->
         SetHandover(IF ~s.pending_id THEN [s EXCEPT !.pending_TAU = TRUE] ELSE s,
                     "TAU", m.timestamp)
    [] field.show = "74" ->
         SetHandover([s EXCEPT !.pending_TAU = FALSE], "TAU", DatetimeMin)
    [] field.show = "81" -> SetHandover(s, "GUTI", DatetimeMin)
    [] field.show \in {"83", "92"} -> SetHandover(s, "Authentication", DatetimeMin)
    [] field.show = "86" -> Identification_reset_parameters(s)
    [] field.show \in {"94", "95"} -> SetHandover(s, "Security", DatetimeMin)
    [] field.show = "255" /\ ~s.pending_id -> [s EXCEPT !.pending_service = TRUE]
    [] OTHER -> s

\* check for valid requested identity
Identification_mobile_type(s, field) ==
  LET mobile_type == field.showname
  IN  IF mobile_type = None THEN Raise(s)
      ELSE IF Contains("no identity", mobile_type)
      THEN Identification_fail(s, "UNAVAILABLE")
      ELSE IF /\ ~Contains("IMEISV", mobile_type)
              /\ ~Contains("TMSI/P-TMSI/M-TMSI", mobile_type)
              /\ ~Contains("IMSI", mobile_type)
      THEN Identification_fail(s, "UNAVAILABLE")
      ELSE s

Identification_outgoing_field(s, field, m) ==
  IF field.name = EmmType THEN Identification_outgoing_emm(s, field, m)
  ELSE IF field.name = "gsm_a.ie.mobileid.type"
  THEN Identification_mobile_type(s, field)
  ELSE s

Identification_handover_cond(s, m) ==
  /\ s.handover_timestamps["Identification"] = MaxTimestamp(s.handover_timestamps)
  /\ InWindow(Seconds(m.timestamp, s.handover_timestamps["Identification"]),
              IdentifyHandoverWindow)

Identification_rrc_field(s, field, m) ==
  IF field.name # RrcCause THEN s
  ELSE IF field.showname = None THEN Raise(s)
  ELSE IF Contains("handoverFailure", field.showname)
          /\ Identification_handover_cond(s, m)
  THEN Identification_fail(s, "HANDOVER")
  ELSE s

\* IdentificationAnalyzer.__emm_sr_callback(msg)
Identification_emm_sr_callback(s0, m) ==
  LET s == [s0 EXCEPT !.out = <<>>, !.exc = FALSE]
      f[i \in 0..Len(m.fields)] ==
        IF i = 0 THEN s
        ELSE LET prev == f[i - 1]
             IN  IF prev.exc THEN prev
                 ELSE CASE m.type_id = "LTE_NAS_EMM_OTA_Incoming_Packet" ->
                             Identification_incoming_field(prev, m.fields[i], m)
                        [] m.type_id = "LTE_NAS_EMM_OTA_Outgoing_Packet" ->
                             Identification_outgoing_field(prev, m.fields[i], m)
                        [] m.type_id = "LTE_RRC_OTA_Packet" ->
                             Identification_rrc_field(prev, m.fields[i], m)
                        [] OTHER -> prev
  IN  IF m.hasMsg THEN f[Len(m.fields)] ELSE s

-----------------------------------------------------------------------------
(* AttachFrAnalyzer (attach_fr_analyzer.py) *)

AttachKinds == {"TIMEOUT", "CONCURRENT", "DETACH", "PROTOCOL_ERROR", "EMM"}
AttachThreshold == 30

AttachFr_init ==
  [attach_req_timestamp |-> NoneTs, attach_accept_timestamp |-> NoneTs,
   pending_attach |-> FALSE, accepting_attach |-> FALSE, prev_log |-> NoLog,
   timeouts |-> 0,
   handover_timestamps |-> [p \in Procs \cup {"Attach"} |-> DatetimeMin],
   kpi |-> [k \in AttachKinds |-> 0], out |-> <<>>, exc |-> FALSE]

\* the six assignments that end the reject, detach, concurrent and timeout
\* branches
AttachFr_clear(s) ==
  [s EXCEPT !.timeouts = 0, !.pending_attach = FALSE, !.accepting_attach = FALSE,
            !.prev_log = NoLog, !.attach_req_timestamp = NoneTs,
            !.attach_accept_timestamp = NoneTs]

\* the value published under KPI_Retainability_ATTACH_DETACH_FAILURE by the
\* incoming-Detach path: the CONCURRENT counter
AttachFr_in_detach_value(s) == s.kpi["CONCURRENT"]

\* AttachFr_in_accept leaving the instant of the request in place
AttachFr_in_accept_keeps_request(s, m) ==
  LET s1 == IF s.attach_accept_timestamp # NoneTs
            THEN IF InWindow(Seconds(m.timestamp, s.attach_accept_timestamp),
                             AttachThreshold)
                 THEN [s EXCEPT !.timeouts = @ + 1]
                 ELSE [s EXCEPT !.timeouts = 0]
            ELSE s
      s2 == IF s1.timeouts = StrikeLimit
            THEN LET a == Increment(s1, "TIMEOUT")
                     b == store_kpi(a, Name("ATTACH", "TIMEOUT"), a.kpi["TIMEOUT"])
                 IN  [b EXCEPT !.accepting_attach = FALSE, !.prev_log = NoLog,
                               !.timeouts = 0,
                               !.attach_accept_timestamp = NoneTs]
            ELSE s1
  IN  [s2 EXCEPT !.accepting_attach = TRUE,
                 !.attach_accept_timestamp = m.timestamp,
                 !.prev_log = m.fields, !.pending_attach = FALSE]

\* incoming 66 while pending: Attach accept
AttachFr_in_accept(s, m) ==
  LET s1 == IF s.attach_accept_timestamp # NoneTs
            THEN IF InWindow(Seconds(m.timestamp, s.attach_accept_timestamp),
                             AttachThreshold)
                 THEN [s EXCEPT !.timeouts = @ + 1]
                 ELSE [s EXCEPT !.timeouts = 0]
            ELSE s
      s2 == IF s1.timeouts = StrikeLimit
            THEN LET a == Increment(s1, "TIMEOUT")
                     b == store_kpi(a, Name("ATTACH", "TIMEOUT"), a.kpi["TIMEOUT"])
                 IN  [b EXCEPT !.accepting_attach = FALSE, !.prev_log = NoLog,
                               !.timeouts = 0,
                               !.attach_accept_timestamp = NoneTs]
            ELSE s1
  IN  [s2 EXCEPT !.accepting_attach = TRUE,
                 !.attach_accept_timestamp = m.timestamp,
                 !.prev_log = m.fields, !.pending_attach = FALSE,
                 !.attach_req_timestamp = NoneTs]

AttachFr_t3346(s, subfield) ==
  IF subfield.showname # None /\ Contains("T3346", subfield.showname)
  THEN LET a == Increment(s, "EMM")
       IN  store_kpi(a, Name("ATTACH", "EMM"), a.kpi["EMM"])
  ELSE s

\* value 68: one round of the loop over the cause fields
AttachFr_reject_cause(s, child_field, fields) ==
  IF child_field.name # EmmCause THEN s
  ELSE IF child_field.show \in ProtocolErrors
  THEN LET a == Increment(s, "PROTOCOL_ERROR")
       IN  store_kpi(a, Name("ATTACH", "PROTOCOL_ERROR"), a.kpi["PROTOCOL_ERROR"])
  ELSE IF child_field.show = "22"
  THEN LET f[i \in 0..Len(fields)] ==
             IF i = 0 THEN s ELSE AttachFr_t3346(f[i - 1], fields[i])
       IN  f[Len(fields)]
  ELSE LET a == Increment(s, "EMM")
       IN  store_kpi(a, Name("ATTACH", "EMM"), a.kpi["EMM"])

\* value 68: Attach reject
AttachFr_in_reject(s, m) ==
  LET f[i \in 0..Len(m.fields)] ==
        IF i = 0 THEN s
        ELSE AttachFr_reject_cause(f[i - 1], m.fields[i], m.fields)
  IN  AttachFr_clear(f[Len(m.fields)])

\* value 69: one round of the loop over the subfields.  loc.unbound: the
\* round read child_field, which no statement of this branch binds
AttachFr_detach_scan(loc, subfield) ==
  IF loc.unbound THEN loc
  ELSE IF subfield.showname # None
          /\ Contains("re-attach", Lower(subfield.showname))
  THEN [detach_type |-> Lower(subfield.showname), cause_idx |-> PyInt(-1),
        unbound |-> FALSE]
  ELSE IF subfield.name = EmmCause
  THEN [detach_type |-> "", cause_idx |-> PyInt(-1), unbound |-> TRUE]
  ELSE [detach_type |-> "", cause_idx |-> PyInt(-1), unbound |-> FALSE]

AttachFr_detach_locals(fields) ==
  LET f[i \in 0..Len(fields)] ==
        IF i = 0 THEN [detach_type |-> "", cause_idx |-> PyInt(-1),
                       unbound |-> FALSE]
        ELSE AttachFr_detach_scan(f[i - 1], fields[i])
  IN  f[Len(fields)]

\* value 69: Detach request to UE
AttachFr_in_detach_request(s, m) ==
  IF s.pending_attach /\ s.attach_req_timestamp # NoneTs
  THEN LET loc == AttachFr_detach_locals(m.fields)
       IN  IF loc.unbound THEN Raise(s)
           ELSE IF DetachAbortCond(loc)
           THEN LET a == Increment(s, "DETACH")
                IN  AttachFr_clear(
                      store_kpi(a, Name("ATTACH", "DETACH"),
                                AttachFr_in_detach_value(a)))
           ELSE s
  ELSE s

\* LTE_NAS_EMM_OTA_Incoming_Packet: the body of the loop over the fields
AttachFr_incoming_field(s, field, m) ==
  IF field.name # EmmType THEN s
  ELSE IF field.show = "66" /\ s.pending_attach THEN AttachFr_in_accept(s, m)
  ELSE IF field.value = "68" THEN AttachFr_in_reject(s, m)
  ELSE IF field.value = "69" THEN AttachFr_in_detach_request(s, m)
  ELSE s

\* the information elements the Attach analyzer compares
AttachFr_IE_key(field) ==
  IF field.name \in {"nas_eps.emm.eps_att_type", "nas_eps.emm.esm_msg_cont",
                     "nas_eps.emm.type_of_id", "gsm_a.gm.gmm.ue_usage_setting"}
  THEN field.name
  ELSE IF field.show \in {"EPS mobile identity", "UE network capability",
                          "DRX parameter"}
  THEN field.show
  ELSE None

AttachFr_IE(fields) ==
  LET f[i \in 0..Len(fields)] ==
        IF i = 0 THEN <<>>
        ELSE LET k == AttachFr_IE_key(fields[i])
                 d == f[i - 1]
             IN  IF k = None THEN d
                 ELSE [x \in DOMAIN d \cup {k} |->
                         IF x = k THEN fields[i].showname ELSE d[x]]
  IN  f[Len(fields)]

AttachFr_fail(s, kind) ==
  LET a == Increment(s, kind)
  IN  AttachFr_clear(store_kpi(a, Name("ATTACH", kind), a.kpi[kind]))

\* AttachFr_concurrent_check without the comparison of the elements
AttachFr_concurrent_check_always(s, m) ==
  IF s.pending_attach \/ s.accepting_attach
  THEN LET ts == IF s.pending_attach THEN s.attach_req_timestamp
                 ELSE s.attach_accept_timestamp
       IN  IF ts = NoneTs THEN Raise(s)
           ELSE IF InWindow(Seconds(m.timestamp, ts), AttachThreshold)
           THEN IF s.prev_log = NoLog THEN Raise(s)
                ELSE AttachFr_fail(s, "CONCURRENT")
           ELSE s
  ELSE s

\* outgoing 65: the concurrent check of an Attach request
AttachFr_concurrent_check(s, m) ==
  IF s.pending_attach \/ s.accepting_attach
  THEN LET ts == IF s.pending_attach THEN s.attach_req_timestamp
                 ELSE s.attach_accept_timestamp
       IN  IF ts = NoneTs THEN Raise(s)
           ELSE IF InWindow(Seconds(m.timestamp, ts), AttachThreshold)
           THEN IF s.prev_log = NoLog THEN Raise(s)
                ELSE IF DictDiffer(AttachFr_IE(s.prev_log), AttachFr_IE(m.fields))
                THEN AttachFr_fail(s, "CONCURRENT")
                ELSE s
           ELSE s
  ELSE s

\* outgoing 65: the retransmit strike of an Attach request
AttachFr_strike(s, m) ==
  IF s.attach_req_timestamp # NoneTs
  THEN IF InWindow(Seconds(m.timestamp, s.attach_req_timestamp), AttachThreshold)
       THEN [s EXCEPT !.timeouts = @ + 1]
       ELSE [s EXCEPT !.timeouts = 0]
  ELSE s

\* AttachFr_timeout_check firing one strike early
AttachFr_timeout_check_early(s) ==
  IF s.timeouts = StrikeLimit - 1 THEN AttachFr_fail(s, "TIMEOUT") ELSE s

AttachFr_timeout_check(s) ==
  IF s.timeouts = StrikeLimit THEN AttachFr_fail(s, "TIMEOUT") ELSE s

\* outgoing 65: Attach request
AttachFr_out_request(s, m) ==
  LET s1 == AttachFr_concurrent_check(s, m)
  IN  IF s1.exc THEN s1
      ELSE LET s2 == AttachFr_timeout_check(AttachFr_strike(s1, m))
           IN  [s2 EXCEPT !.pending_attach = TRUE,
                          !.attach_req_timestamp = m.timestamp,
                          !.prev_log = m.fields]

\* AttachFr_out_complete recording the instant instead of clearing it
AttachFr_out_complete_restamps(s, m) ==
  IF s.attach_accept_timestamp # NoneTs
     /\ InWindow(Seconds(m.timestamp, s.attach_accept_timestamp), AttachThreshold)
  THEN [s EXCEPT !.accepting_attach = FALSE,
                 !.attach_accept_timestamp = m.timestamp,
                 !.timeouts = 0, !.prev_log = NoLog]
  ELSE s

\* outgoing 67: Attach complete
AttachFr_out_complete(s, m) ==
  IF s.attach_accept_timestamp # NoneTs
     /\ InWindow(Seconds(m.timestamp, s.attach_accept_timestamp), AttachThreshold)
  THEN [s EXCEPT !.accepting_attach = FALSE, !.attach_accept_timestamp = NoneTs,
                 !.timeouts = 0, !.prev_log = NoLog]
  ELSE s

\* outgoing 69: Detach request to network
AttachFr_out_detach_request(s, m) ==
  IF s.pending_attach \/ s.accepting_attach
  THEN LET ts == IF s.pending_attach THEN s.attach_req_timestamp
                 ELSE s.attach_accept_timestamp
       IN  IF ts = NoneTs THEN Raise(s)
           ELSE IF InWindow(Seconds(m.timestamp, ts), AttachThreshold)
           THEN AttachFr_fail(s, "DETACH")
           ELSE s
  ELSE s

\* LTE_NAS_EMM_OTA_Outgoing_Packet: the body of the loop over the fields
AttachFr_outgoing_field(s, field, m) ==
  IF field.name # EmmType THEN s
  ELSE CASE field.show = "65" -> AttachFr_out_request(s, m)
         [] field.show = "67" -> AttachFr_out_complete(s, m)
         [] field.show = "69" -> AttachFr_out_detach_request(s, m)
         [] OTHER -> s

\* AttachFrAnalyzer.__emm_sr_callback(msg)
AttachFr_emm_sr_callback(s0, m) ==
  LET s == [s0 EXCEPT !.out = <<>>, !.exc = FALSE]
      f[i \in 0..Len(m.fields)] ==
        IF i = 0 THEN s
        ELSE LET prev == f[i - 1]
             IN  IF prev.exc THEN prev
                 ELSE CASE m.type_id = "LTE_NAS_EMM_OTA_Incoming_Packet" ->
                             AttachFr_incoming_field(prev, m.fields[i], m)
                        [] m.type_id = "LTE_NAS_EMM_OTA_Outgoing_Packet" ->
                             AttachFr_outgoing_field(prev, m.fields[i], m)
                        [] OTHER -> prev
  IN  IF m.hasMsg THEN f[Len(m.fields)] ELSE s

-----------------------------------------------------------------------------
(* The decoded messages the event source delivers *)

\* the value attribute of the message-type octet: its hexadecimal digits
HexValue(show) ==
  CASE show = "65" -> "41" [] show = "66" -> "42" [] show = "67" -> "43"
    [] show = "68" -> "44" [] show = "69" -> "45" [] show = "70" -> "46"
    [] show = "72" -> "48" [] show = "73" -> "49" [] show = "74" -> "4a"
    [] show = "75" -> "4b" [] show = "78" -> "4e" [] show = "79" -> "4f"
    [] show = "80" -> "50" [] show = "81" -> "51" [] show = "82" -> "52"
    [] show = "83" -> "53" [] show = "84" -> "54" [] show = "85" -> "55"
    [] show = "86" -> "56" [] show = "92" -> "5c" [] show = "93" -> "5d"
    [] show = "94" -> "5e" [] show = "95" -> "5f" [] show = "97" -> "61"
    [] show = "104" -> "68" [] show = "105" -> "69" [] show = "255" -> "ff"

Emm(show) ==
  Field(EmmType, show, HexValue(show), "NAS EPS Mobility Management Message Type")
Cause(show) == Field(EmmCause, show, show, "Cause")
DetachType(sn) == Field("nas_eps.emm.detach_type_dl", None, None, sn)
SwitchOff(sn) == Field("nas_eps.emm.switch_off", None, None, sn)
AttType(sn) == Field("nas_eps.emm.eps_att_type", None, None, sn)
KeySetId(sn) == Field("nas_eps.emm.nas_key_set_id", None, None, sn)
UsageSetting(sn) == Field("gsm_a.gm.gmm.ue_usage_setting", None, None, sn)
Reestablishment(sn) == Field(RrcCause, None, None, sn)

Msg(type_id, t, fields) ==
  [type_id |-> type_id, hasMsg |-> TRUE, timestamp |-> t, fields |-> fields]

Incoming == "LTE_NAS_EMM_OTA_Incoming_Packet"
Outgoing == "LTE_NAS_EMM_OTA_Outgoing_Packet"
Rrc == "LTE_RRC_OTA_Packet"

\* payloads: the fields of one decoded message, in document order
AttachRequest == <<Emm("65"), AttType("EPS attach")>>
AttachRequestB == <<Emm("65"), AttType("EPS emergency attach")>>
TauRequest == <<Emm("72"), UsageSetting("Voice centric")>>
TauRequestB == <<Emm("72"), UsageSetting("Data centric")>>
DetachSwitchOff == <<Emm("69"), SwitchOff("Switch off: Switch off (1)")>>
DetachReattach == <<Emm("69"), DetachType("Detach Type: Re-attach required (1)")>>
DetachCause ==
  <<Emm("69"), DetachType("Detach Type: Re-attach not required (2)"), Cause("2")>>
TauReject == <<Emm("75"), Cause("96")>>
AuthFailure == <<Emm("92"), Cause("20")>>
\* a message-type octet whose hexadecimal digits read 68 and 69
Octet68 == <<Emm("104"), Cause("22"),
             Field("gsm_a.gm.gmm.gprs_timer2", None, None,
                   "GPRS Timer 2 - T3346 value")>>
Octet69 == <<Emm("105"), DetachType("Detach Type: Re-attach required (1)")>>
HandoverFailure == <<Reestablishment("reestablishmentCause: handoverFailure (1)")>>
OtherFailure == <<Reestablishment("reestablishmentCause: otherFailure (2)")>>

\* the event that starts each analyzer's procedure, and one that ends it
StartOf(a) ==
  CASE a = "Identification" -> Msg(Incoming, 0, <<Emm("85")>>)
    [] a = "Security" -> Msg(Incoming, 0, <<Emm("93")>>)
    [] a = "GUTI" -> Msg(Incoming, 0, <<Emm("80")>>)
    [] a = "Authentication" -> Msg(Incoming, 0, <<Emm("82")>>)
    [] a = "Attach" -> Msg(Outgoing, 0, AttachRequest)
    [] a = "TAU" -> Msg(Outgoing, 0, TauRequest)
    [] a = "Detach" -> Msg(Incoming, 0, DetachReattach)

EndOf(a) ==
  CASE a = "Identification" -> Msg(Outgoing, 0, <<Emm("86")>>)
    [] a = "Security" -> Msg(Outgoing, 0, <<Emm("94")>>)
    [] a = "GUTI" -> Msg(Outgoing, 0, <<Emm("81")>>)
    [] a = "Authentication" -> Msg(Outgoing, 0, <<Emm("83")>>)
    [] a = "Attach" -> Msg(Outgoing, 0, <<Emm("67")>>)
    [] a = "TAU" -> Msg(Outgoing, 0, <<Emm("74")>>)
    [] a = "Detach" -> Msg(Outgoing, 0, <<Emm("70")>>)

\* m is the start event of a's procedure
IsStartOf(a, m) ==
  m.hasMsg /\ m.type_id = StartOf(a).type_id /\ m.fields = StartOf(a).fields

\* the incoming messages an analyzer's own exchange is made of: those its
\* callback has a branch for beyond the bookkeeping of the timestamp table
OwnIn(a) ==
  CASE a = "Identification" -> {<<Emm("85")>>, <<Emm("78")>>, <<Emm("68")>>}
    [] a = "Security" -> {<<Emm("93")>>, <<Emm("78")>>, TauReject}
    [] a = "GUTI" -> {<<Emm("80")>>}
    [] a = "Authentication" -> {<<Emm("82")>>, <<Emm("84")>>, <<Emm("78")>>,
                                TauReject}
    [] a = "Attach" -> {<<Emm("66")>>, <<Emm("68"), Cause("22")>>, Octet68,
                        DetachReattach, Octet69}
    [] a = "TAU" -> {<<Emm("73")>>, TauReject, DetachReattach, DetachCause}
    [] a = "Detach" -> {DetachReattach, DetachCause, <<Emm("70")>>}

OwnOut(a) ==
  CASE a = "Identification" -> {<<Emm("86")>>, AttachRequest, AttachRequestB,
                                <<Emm("67")>>, DetachSwitchOff, TauRequest,
                                <<Emm("74")>>, <<Emm("255")>>}
    [] a = "Security" -> {<<Emm("94")>>, <<Emm("95")>>, AttachRequest, TauRequest,
                          <<Emm("74")>>, <<Emm("255")>>, DetachSwitchOff,
                          <<Emm("70")>>}
    [] a = "GUTI" -> {<<Emm("81")>>, AttachRequest, TauRequest, <<Emm("255")>>,
                      DetachSwitchOff}
    [] a = "Authentication" -> {<<Emm("83")>>, AuthFailure, TauRequest,
                                <<Emm("74")>>, <<Emm("255")>>}
    [] a = "Attach" -> {AttachRequest, AttachRequestB, <<Emm("67")>>,
                        DetachSwitchOff}
    [] a = "TAU" -> {TauRequest, TauRequestB, <<Emm("74")>>, DetachSwitchOff}
    [] a = "Detach" -> {DetachSwitchOff, <<Emm("70")>>, AttachRequest, TauRequest}

-----------------------------------------------------------------------------
(* The replay: the source delivers one message at a time to the analyzers *)

\* registration order of the example program
Analyzers == <<"Identification", "Security", "GUTI", "Authentication",
               "Attach", "TAU", "Detach">>

\* "only run KPIs for one EMM procedure"
Configs == {{Analyzers[i]} : i \in DOMAIN Analyzers}

KpiNames ==
  {Name("IDENTIFY", k) : k \in IdentifyKinds} \cup
  {Name("SECURITY", k) : k \in SecurityKinds} \cup
  {Name("GUTI", k) : k \in GutiKinds} \cup
  {Name("AUTH", k) : k \in AuthKinds} \cup
  {Name("ATTACH", k) : k \in AttachKinds} \cup
  {Name("TAU", k) : k \in TauKinds} \cup
  {Name("DETACH", k) : k \in DetachKinds}

NoMessage == [type_id |-> None, hasMsg |-> FALSE, timestamp |-> 0, fields |-> <<>>]

Init ==
  /\ enabled \in Configs
  /\ now = 0
  /\ nmsgs = 0
  /\ crashed = FALSE
  /\ last = NoMessage
  /\ lastpub = [n \in KpiNames |-> NoPub]
  /\ starts = <<>>
  /\ ident = Identification_init
  /\ sec = SecurityFr_init
  /\ guti = GutiFr_init
  /\ auth = AuthFr_init
  /\ att = AttachFr_init
  /\ det = Detach_init
  /\ tau = TauFr_init

\* an analyzer that does not see the message made no store_kpi call
Idle(s) == [s EXCEPT !.out = <<>>, !.exc = FALSE]

\* the latest value stored under each KPI name
Latest(pub, calls) ==
  LET f[k \in 0..Len(calls)] ==
        IF k = 0 THEN pub
        ELSE [f[k - 1] EXCEPT ![calls[k].name] = calls[k].value]
  IN  f[Len(calls)]

\* the analyzer object registered under a name, and its callback
StateOf(a) ==
  CASE a = "Identification" -> ident
    [] a = "Security" -> sec
    [] a = "GUTI" -> guti
    [] a = "Authentication" -> auth
    [] a = "Attach" -> att
    [] a = "TAU" -> tau
    [] a = "Detach" -> det

Callback(a, m) ==
  CASE a = "Identification" -> Identification_emm_sr_callback(ident, m)
    [] a = "Security" -> SecurityFr_emm_sr_callback(sec, m)
    [] a = "GUTI" -> GutiFr_emm_sr_callback(guti, m)
    [] a = "Authentication" -> AuthFr_emm_sr_callback(auth, m)
    [] a = "Attach" -> AttachFr_emm_sr_callback(att, m)
    [] a = "TAU" -> TauFr_emm_sr_callback(tau, m)
    [] a = "Detach" -> Detach_emm_sr_callback(det, m)

\* analyzer a has handled the message and is now s
Ran(r, a, s) ==
  [r EXCEPT !.st[a] = s, !.exc = r.exc \/ s.exc, !.out = r.out \o s.out]

\* one message through every enabled analyzer, in registration order; an
\* exception leaving a callback ends the replay
Dispatch(m) ==
  LET f[k \in 0..Len(Analyzers)] ==
        IF k = 0
        THEN [st |-> [a \in {Analyzers[i] : i \in DOMAIN Analyzers} |-> Idle(StateOf(a))],
              exc |-> FALSE, out |-> <<>>]
        ELSE IF Analyzers[k] \in enabled /\ ~f[k - 1].exc
        THEN Ran(f[k - 1], Analyzers[k], Callback(Analyzers[k], m))
        ELSE f[k - 1]
  IN  f[Len(Analyzers)]

Commit(m, r) ==
  /\ now' = m.timestamp
  /\ nmsgs' = nmsgs + 1
  /\ last' = m
  /\ ident' = r.st["Identification"]
  /\ sec' = r.st["Security"]
  /\ guti' = r.st["GUTI"]
  /\ auth' = r.st["Authentication"]
  /\ att' = r.st["Attach"]
  /\ tau' = r.st["TAU"]
  /\ det' = r.st["Detach"]
  /\ crashed' = r.exc
  /\ lastpub' = Latest(lastpub, r.out)
  /\ starts' = IF \E a \in enabled : IsStartOf(a, m)
               THEN Append(starts, m.timestamp) ELSE <<>>
  /\ UNCHANGED enabled

Deliver(m) == ~crashed /\ Commit(m, Dispatch(m))

\* the source hands over one of the given payloads, d seconds after the
\* previous message
Send(type_id, payloads, deltas) ==
  \E p \in payloads, d \in deltas : Deliver(Msg(type_id, now + d, p))

\* seconds between two consecutive messages: inside and outside the windows
Deltas == {1, 45}

DeliverIncoming ==
  /\ nmsgs < MaxMsgs
  /\ Send(Incoming, UNION {OwnIn(a) : a \in enabled}, Deltas)

DeliverOutgoing ==
  /\ nmsgs < MaxMsgs
  /\ Send(Outgoing, UNION {OwnOut(a) : a \in enabled}, Deltas)

DeliverRrc ==
  /\ nmsgs < MaxMsgs
  /\ Send(Rrc, {HandoverFailure, OtherFailure}, Deltas)

\* a frame of a subscribed type whose decoder produced no "Msg" payload
DeliverNoMsg ==
  /\ nmsgs < MaxMsgs
  /\ \E ty \in {Incoming, Outgoing, Rrc} :
       Deliver([Msg(ty, now + 1, <<>>) EXCEPT !.hasMsg = FALSE])

Next == DeliverIncoming \/ DeliverOutgoing \/ DeliverRrc \/ DeliverNoMsg

Spec == Init /\ [][Next]_vars

-----------------------------------------------------------------------------
(* Runs of re-emitted start events *)

\* the window of the retransmit strike
RetransmitWindow(a) ==
  CASE a = "Identification" -> IdentifyThreshold
    [] a = "Security" -> SecurityThreshold
    [] a = "GUTI" -> GutiT3450
    [] a = "Authentication" -> AuthThreshold
    [] a = "Attach" -> AttachThreshold
    [] a = "TAU" -> TauThreshold
    [] a = "Detach" -> DetachThreshold

\* inside the window, and just past it
StrikeDeltas(a) == {1, RetransmitWindow(a) + 1}

At(m, t) == [m EXCEPT !.timestamp = t]

\* a request whose information elements differ from those of StartOf; for
\* Detach, the request of the other direction
VariantOf(a) ==
  CASE a = "TAU" -> Msg(Outgoing, 0, TauRequestB)
    [] a = "Attach" -> Msg(Outgoing, 0, AttachRequestB)
    [] a = "Identification" -> Msg(Outgoing, 0, AttachRequestB)
    [] a = "Detach" -> Msg(Outgoing, 0, DetachSwitchOff)

Reemit ==
  /\ nmsgs < MaxStrikeMsgs
  /\ \E a \in enabled : \E d \in StrikeDeltas(a) : Deliver(At(StartOf(a), now + d))

Vary ==
  /\ nmsgs < MaxStrikeMsgs
  /\ \E a \in enabled \cap {"TAU", "Attach", "Identification", "Detach"} :
       \E p \in {VariantOf(a), Msg(Outgoing, 0, AttachRequest)} :
          /\ a = "Identification" \/ p = VariantOf(a)
          /\ Deliver(At(p, now + 1))

Conclude ==
  /\ nmsgs < MaxStrikeMsgs
  /\ \E a \in enabled : Deliver(At(EndOf(a), now + 1))

\* the accept of a two-phase procedure, which the network re-emits as well
AcceptOf(a) ==
  CASE a = "Attach" -> Msg(Incoming, 0, <<Emm("66")>>)
    [] a = "TAU" -> Msg(Incoming, 0, <<Emm("73")>>)

Reaccept ==
  /\ nmsgs < MaxStrikeMsgs
  /\ \E a \in enabled \cap {"Attach", "TAU"} : \E d \in StrikeDeltas(a) :
       Deliver(At(AcceptOf(a), now + d))

NextStrikes == Reemit \/ Reaccept \/ Vary \/ Conclude

SpecStrikes == Init /\ [][NextStrikes]_vars

-----------------------------------------------------------------------------
(* Handover attribution *)

HandoverWindow(a) ==
  CASE a = "Identification" -> IdentifyHandoverWindow
    [] a = "Security" -> SecurityHandoverWindow
    [] a = "GUTI" -> GutiHandoverWindow
    [] a = "Authentication" -> AuthHandoverWindow
    [] a = "TAU" -> TauHandoverWindow
    [] a = "Detach" -> DetachThreshold
    [] OTHER -> 0

HoDeltas(a) == {0, 100, HandoverWindow(a), HandoverWindow(a) + 1}

\* another procedure whose start and end the analyzer records in its table
Peer(a) ==
  CASE a = "Identification" -> "Security"
    [] a = "Security" -> "GUTI"
    [] a = "GUTI" -> "Authentication"
    [] a = "Authentication" -> "Identification"
    [] a = "Attach" -> "TAU"
    [] a = "TAU" -> "Detach"
    [] a = "Detach" -> "GUTI"

HoStart ==
  /\ nmsgs < MaxHoMsgs
  /\ \E a \in enabled : \E d \in HoDeltas(a), p \in {a, Peer(a)} :
       Deliver(At(StartOf(p), now + d))

HoEnd ==
  /\ nmsgs < MaxHoMsgs
  /\ \E a \in enabled : \E d \in HoDeltas(a), p \in {a, Peer(a)} :
       Deliver(At(EndOf(p), now + d))

HoRrc ==
  /\ nmsgs < MaxHoMsgs
  /\ \E a \in enabled : \E d \in HoDeltas(a), p \in {HandoverFailure, OtherFailure} :
       Deliver(Msg(Rrc, now + d, p))

NextHandover == HoStart \/ HoEnd \/ HoRrc

SpecHandover == Init /\ [][NextHandover]_vars

-----------------------------------------------------------------------------
(* The six analyzers with a timestamp table and an RRC callback, all
   registered on one source and fed the same messages *)

MaxSharedMsgs == 3

HandoverCapable ==
  {"Identification", "Security", "GUTI", "Authentication", "Detach", "TAU"}

InitShared ==
  /\ enabled = HandoverCapable
  /\ now = 0
  /\ nmsgs = 0
  /\ crashed = FALSE
  /\ last = NoMessage
  /\ lastpub = [n \in KpiNames |-> NoPub]
  /\ starts = <<>>
  /\ ident = Identification_init
  /\ sec = SecurityFr_init
  /\ guti = GutiFr_init
  /\ auth = AuthFr_init
  /\ att = AttachFr_init
  /\ det = Detach_init
  /\ tau = TauFr_init

\* the messages that start procedure q, and those that terminate it
StartsOf(q) ==
  IF q = "Detach"
  THEN {Msg(Incoming, 0, DetachReattach), Msg(Outgoing, 0, DetachSwitchOff)}
  ELSE {StartOf(q)}

EndsOf(q) ==
  CASE q = "Identification" -> {Msg(Outgoing, 0, <<Emm("86")>>)}
    [] q = "Security" -> {Msg(Outgoing, 0, <<Emm("94")>>),
                          Msg(Outgoing, 0, <<Emm("95")>>)}
    [] q = "GUTI" -> {Msg(Outgoing, 0, <<Emm("81")>>)}
    [] q = "Authentication" -> {Msg(Outgoing, 0, <<Emm("83")>>),
                                Msg(Outgoing, 0, AuthFailure),
                                Msg(Incoming, 0, <<Emm("84")>>)}
    [] q = "Detach" -> {Msg(Incoming, 0, <<Emm("70")>>),
                        Msg(Outgoing, 0, <<Emm("70")>>)}
    [] q = "TAU" -> {Msg(Outgoing, 0, <<Emm("74")>>),
                     Msg(Incoming, 0, TauReject)}

SharedStart ==
  /\ nmsgs < MaxSharedMsgs
  /\ \E q \in HandoverCapable : \E m \in StartsOf(q), d \in {0, 1} :
       Deliver(At(m, now + d))

SharedEnd ==
  /\ nmsgs < MaxSharedMsgs
  /\ \E q \in HandoverCapable : \E m \in EndsOf(q) : Deliver(At(m, now + 1))

SharedRrc ==
  /\ nmsgs < MaxSharedMsgs
  /\ Deliver(Msg(Rrc, now + 1, HandoverFailure))

NextShared == SharedStart \/ SharedEnd \/ SharedRrc

SpecShared == InitShared /\ [][NextShared]_vars

-----------------------------------------------------------------------------
(* Authentication failures with their EMM causes *)

MaxAuthMsgs == 4

AuthFailures ==
  {<<Emm("92")>>} \cup {<<Emm("92"), Cause(c)>> : c \in {"20", "21", "26", "22"}}
  \cup {<<Emm("92"), Cause("20"), Cause("21")>>,
        <<Emm("92"), Cause("26"), Cause("22")>>}

InitAuth == Init /\ enabled = {"Authentication"}

AuthChallenge ==
  /\ nmsgs < MaxAuthMsgs
  /\ Deliver(Msg(Incoming, now + 1, <<Emm("82")>>))

AuthFail ==
  /\ nmsgs < MaxAuthMsgs
  /\ \E p \in AuthFailures : Deliver(Msg(Outgoing, now + 1, p))

NextAuth == AuthChallenge \/ AuthFail

SpecAuth == InitAuth /\ [][NextAuth]_vars

-----------------------------------------------------------------------------
(* The Attach analyzer on messages with fields absent or out of place *)

MaxAttachMsgs == 5

\* an Attach Request without any of the information elements compared
BareAttachRequest == <<Emm("65")>>

\* a message-type field with value 69, a detach type and a cause
Octet69Cause ==
  <<Emm("105"), DetachType("Detach Type: Re-attach not required (2)"),
    Cause("2")>>

InitAttach == Init /\ enabled = {"Attach"}

AttachOut ==
  /\ nmsgs < MaxAttachMsgs
  /\ \E p \in {BareAttachRequest, AttachRequest, <<Emm("67")>>} :
       Deliver(Msg(Outgoing, now + 1, p))

AttachIn ==
  /\ nmsgs < MaxAttachMsgs
  /\ \E p \in {<<Emm("66")>>, DetachCause, Octet69Cause} :
       Deliver(Msg(Incoming, now + 1, p))

NextAttach == AttachOut \/ AttachIn

SpecAttach == InitAttach /\ [][NextAttach]_vars

\* the Attach and Detach analyzers registered together on one source, as the
\* example script enables them, and fed the same messages
InitAttachDetach ==
  /\ enabled = {"Attach", "Detach"}
  /\ now = 0
  /\ nmsgs = 0
  /\ crashed = FALSE
  /\ last = NoMessage
  /\ lastpub = [n \in KpiNames |-> NoPub]
  /\ starts = <<>>
  /\ ident = Identification_init
  /\ sec = SecurityFr_init
  /\ guti = GutiFr_init
  /\ auth = AuthFr_init
  /\ att = AttachFr_init
  /\ det = Detach_init
  /\ tau = TauFr_init

SpecAttachDetach == InitAttachDetach /\ [][NextAttach]_vars

-----------------------------------------------------------------------------
(* One analyzer on the variants of the messages it reacts to, and on
   messages it has no branch for *)

MaxVariantMsgs == 3

\* payloads without a message-type field, message types no analyzer tests
\* for in that direction (97; 86 incoming, 85 outgoing; 104, whose octet is
\* 68), and types only some analyzers test for
SilentIn ==
  {<<>>, <<Cause("22")>>, <<Emm("97")>>, <<Emm("86")>>, <<Emm("104")>>,
   <<Emm("73")>>, <<Emm("78")>>}
SilentOut ==
  {<<>>, <<Cause("22")>>, <<Emm("97")>>, <<Emm("85")>>, AttachRequest,
   <<Emm("255")>>}
SilentRrc == {<<>>, <<Emm("97")>>}

\* the timer a reject with cause 22 (congestion) may carry
T3346Timer ==
  Field("gsm_a.gm.gmm.gprs_timer2", None, None, "GPRS Timer 2 - T3346 value")

\* rejects of a message type with one cause: two protocol errors, congestion
\* with and without T3346, and an ordinary cause
Rejects(show) ==
  {<<Emm(show), Cause("96")>>, <<Emm(show), Cause("111")>>,
   <<Emm(show), Cause("22")>>, <<Emm(show), Cause("22"), T3346Timer>>,
   <<Emm(show), Cause("3")>>}

\* Detach Requests of the three detach types, without a cause and with cause
\* 2 or 3 after or before the detach type
DetachRequests ==
  LET types == {"Detach Type: Re-attach required (1)",
                "Detach Type: Re-attach not required (2)",
                "Detach Type: IMSI detach (3)"}
  IN  {<<Emm("69"), DetachType(t)>> : t \in types}
      \cup {<<Emm("69"), DetachType(t), Cause(c)>> : t \in types, c \in {"2", "3"}}
      \cup {<<Emm("69"), Cause(c), DetachType(t)>> : t \in types, c \in {"2", "3"}}

VariantIn(a) ==
  SilentIn \cup
  (CASE a = "Attach" -> Rejects("68") \cup Rejects("104")
     [] a = "TAU" -> Rejects("75") \cup DetachRequests
     [] a = "Detach" ->
          DetachRequests \cup {<<Emm("69"), Cause("2"), Cause("3")>>}
     [] a \in {"Identification", "Security", "Authentication"} ->
          {TauReject, <<Emm("79")>>}
     [] OTHER -> {})

\* Attach Requests that differ in the key set identifier, which is one of the
\* mandatory information elements of an Attach Request, and in the usage
\* setting, which is not
AttachRequests ==
  {<<Emm("65"), AttType("EPS attach"), KeySetId(k), UsageSetting(u)>> :
     k \in {"NAS key set identifier: (1)", "NAS key set identifier: (2)"},
     u \in {"Voice centric", "Data centric"}}

VariantOut(a) ==
  SilentOut \cup
  (CASE a = "Attach" -> AttachRequests
     [] a = "Detach" -> {TauRequest}
     [] a = "TAU" -> {DetachSwitchOff, <<Emm("69")>>}
     [] a \in {"Identification", "Security", "Authentication"} ->
          {DetachSwitchOff, DetachReattach, <<Emm("69")>>, TauRequest,
           <<Emm("74")>>}
     [] OTHER -> {})

\* the analyzer's procedure starts, or its accept arrives
VariantStart ==
  /\ nmsgs < MaxVariantMsgs
  /\ \E a \in enabled :
       \E m \in {StartOf(a)} \cup (IF a \in {"Attach", "TAU"} THEN {AcceptOf(a)} ELSE {}) :
          Deliver(At(m, now + 1))

VariantIncoming ==
  /\ nmsgs < MaxVariantMsgs
  /\ \E a \in enabled : \E p \in VariantIn(a) : Deliver(Msg(Incoming, now + 1, p))

VariantOutgoing ==
  /\ nmsgs < MaxVariantMsgs
  /\ \E a \in enabled : \E p \in VariantOut(a) : Deliver(Msg(Outgoing, now + 1, p))

VariantRrc ==
  /\ nmsgs < MaxVariantMsgs
  /\ \E p \in SilentRrc : Deliver(Msg(Rrc, now + 1, p))

\* a log item without the "Msg" key, one second or 45 s after the last
VariantNoMsg ==
  /\ nmsgs < MaxVariantMsgs
  /\ \E ty \in {Incoming, Outgoing, Rrc}, d \in Deltas :
       Deliver([Msg(ty, now + d, <<>>) EXCEPT !.hasMsg = FALSE])

NextVariants ==
  VariantStart \/ VariantIncoming \/ VariantOutgoing \/ VariantRrc \/ VariantNoMsg

SpecVariants == Init /\ [][NextVariants]_vars

-----------------------------------------------------------------------------
(* Properties *)

\* the store_kpi calls made while handling the last message
Calls ==
  ident.out \o sec.out \o guti.out \o auth.out \o att.out \o tau.out \o det.out

\* every call stores a value at least as large as the one stored before it
\* under the same name
Monotone(pub, calls) ==
  \A k \in 1..Len(calls) :
     calls[k].value >= Latest(pub, SubSeq(calls, 1, k - 1))[calls[k].name]

\* C1: for every analyzer and every counter name, the values published under
\* that name, in message order, never decrease.
C1_PublishedNonDecreasing == [][Monotone(lastpub, Calls')]_vars

\* the calls after the k-th that store under the same name
Later(out, k) == Cardinality({j \in (k + 1)..Len(out) : out[j].name = out[k].name})

Registered == {Analyzers[i] : i \in DOMAIN Analyzers}

\* C2: every published value is the running total, just incremented, of the
\* counter its name designates (the DETACH counter under ..._DETACH_FAILURE,
\* the TIMEOUT counter under AUTH_TIMEOUT_FAILURE).
C2_PublishedIsRunningTotal ==
  \A a \in Registered :
     \A k \in 1..Len(StateOf(a).out) :
        StateOf(a).out[k].value =
          StateOf(a).kpi[StateOf(a).out[k].name.kind] - Later(StateOf(a).out, k)

\* C3: in the Attach and the TAU analyzer the pending flag and the accepting
\* flag are never both true.
C3_PendingAcceptingExclusive ==
  /\ ~(att.pending_attach /\ att.accepting_attach)
  /\ ~(tau.pending_TAU /\ tau.accepting_TAU)

\* self.handover_timestamps of analyzer a
Table(a) == StateOf(a).handover_timestamps

\* analyzer a made a store_kpi call of one of these kinds for the last message
Emitted(a, kinds) ==
  \E k \in 1..Len(StateOf(a).out) : StateOf(a).out[k].name.kind \in kinds

\* message m carries one of these EMM message types
HasType(m, type_id, shows) ==
  /\ m.hasMsg
  /\ m.type_id = type_id
  /\ \E i \in 1..Len(m.fields) :
        m.fields[i].name = EmmType /\ m.fields[i].show \in shows

\* C4 as stated: an entry of a timestamp table only changes from the sentinel to
\* a timestamp or from a timestamp to the sentinel, never from one timestamp
\* to another.
C4_EntryNeverOverwritten ==
  [][\A a \in enabled : \A p \in DOMAIN Table(a) :
        Table(a)'[p] # Table(a)[p] =>
           (Table(a)[p] = DatetimeMin \/ Table(a)'[p] = DatetimeMin)]_vars

\* C4, amended: whenever an entry of a timestamp table changes it becomes the
\* sentinel or the timestamp of the message being handled; a start event
\* re-emitted while the procedure is pending overwrites the earlier timestamp
\* with its own.
C4_EntrySetToNowOrSentinel ==
  [][\A a \in enabled : \A p \in DOMAIN Table(a) :
        Table(a)'[p] # Table(a)[p] => Table(a)'[p] \in {DatetimeMin, now'}]_vars

\* a GUTI command re-emitted one strike later overwrote the entry
C4_Witness ==
  /\ enabled = {"GUTI"}
  /\ nmsgs = 2
  /\ guti.timeouts = 1
  /\ now > 1
  /\ guti.handover_timestamps["GUTI"] = now

\* C5 as stated: right after a message for which analyzer P emitted
\* P_TIMEOUT_FAILURE or P_CONCURRENT_FAILURE, P's own table entry is the
\* sentinel.
C5_EntryClearedAfterTimeout ==
  \A a \in Registered :
     Emitted(a, {"TIMEOUT", "CONCURRENT"}) => Table(a)[a] = DatetimeMin

\* C5, amended: right after a message for which analyzer P emitted
\* P_TIMEOUT_FAILURE or P_CONCURRENT_FAILURE, P's own table entry is the
\* timestamp of that message, which the handler records as the new pending
\* request after the reset; it is the sentinel only after Identification's
\* CONCURRENT failure, emitted on an Attach request, and in the Attach
\* analyzer, which never writes its table.
C5_EntryRestartedAfterTimeout ==
  \A a \in Registered :
     Emitted(a, {"TIMEOUT", "CONCURRENT"}) =>
        Table(a)[a] = IF a = "Attach" \/ (a = "Identification"
                                           /\ ~Emitted(a, {"TIMEOUT"}))
                      THEN DatetimeMin ELSE now

\* the Identification analyzer has just emitted its TIMEOUT failure
C5_Witness ==
  /\ enabled = {"Identification"}
  /\ Emitted("Identification", {"TIMEOUT"})
  /\ ident.pending_id

\* the pending and accepting flags of analyzer a
Flags(a) ==
  CASE a = "Identification" -> {ident.pending_id, ident.pending_attach,
                                ident.pending_service, ident.pending_TAU}
    [] a = "Security" -> {sec.pending_security_mode, sec.pending_service,
                          sec.pending_TAU}
    [] a = "GUTI" -> {guti.pending_guti}
    [] a = "Authentication" -> {auth.pending_auth, auth.pending_service,
                                auth.pending_TAU}
    [] a = "Attach" -> {att.pending_attach, att.accepting_attach}
    [] a = "TAU" -> {tau.pending_TAU, tau.accepting_TAU}
    [] a = "Detach" -> {det.pending_detach}

\* message m is a terminating response of a's procedure (the TAU complete
\* counts when it comes within the threshold of the recorded accept)
Terminates(a, m) ==
  CASE a = "Identification" -> HasType(m, Outgoing, {"86"})
    [] a = "Security" -> HasType(m, Outgoing, {"94", "95"})
    [] a = "GUTI" -> HasType(m, Outgoing, {"81"})
    [] a = "Authentication" -> \/ HasType(m, Outgoing, {"83", "92"})
                               \/ HasType(m, Incoming, {"84"})
    [] a = "Attach" -> FALSE
    [] a = "TAU" -> \/ HasType(m, Incoming, {"75"})
                    \/ /\ HasType(m, Outgoing, {"74"})
                       /\ tau.TAU_accept_timestamp # NoneTs
                       /\ InWindow(m.timestamp - tau.TAU_accept_timestamp,
                                   TauThreshold)
    [] a = "Detach" -> \/ HasType(m, Outgoing, {"70"})
                       \/ HasType(m, Incoming, {"70"})

\* the procedure of analyzer a is neither outstanding nor flagged
Quiet(a) == Table(a)[a] = DatetimeMin /\ Flags(a) = {FALSE}

\* C6: right after a message for which analyzer P emitted P_HANDOVER_FAILURE
\* or P_DETACH_FAILURE, or which was a terminating response of P's procedure,
\* P's own table entry is the sentinel and all its pending and accepting
\* flags are false.
C6_QuietAfterTermination ==
  [][\A a \in enabled :
        (Emitted(a, {"HANDOVER", "DETACH"})' \/ Terminates(a, last')) => Quiet(a)']_vars

\* a detach at switch-off has just ended the pending TAU with a DETACH failure
C6_Witness ==
  /\ enabled = {"TAU"}
  /\ nmsgs = 2
  /\ tau.out = <<[name |-> Name("TAU", "DETACH"), value |-> 1]>>
  /\ Quiet("TAU")
  /\ tau.prev_log = NoLog

\* the start events delivered in a row are k, each within the retransmit
\* window of the one before
InWindowRun(a, k) ==
  /\ Len(starts) = k
  /\ \A i \in 2..k : InWindow(starts[i] - starts[i - 1], RetransmitWindow(a))

TimeoutName(a) ==
  CASE a = "Identification" -> Name("IDENTIFY", "TIMEOUT")
    [] a = "Security" -> Name("SECURITY", "TIMEOUT")
    [] a = "GUTI" -> Name("GUTI", "TIMEOUT")
    [] a = "Authentication" -> Name("AUTH", "TIMEOUT")
    [] a = "Attach" -> Name("ATTACH", "TIMEOUT")
    [] a = "TAU" -> Name("TAU", "TIMEOUT")
    [] a = "Detach" -> Name("DETACH", "TIMEOUT")

\* C7 as stated: five start events of one procedure in a row from the beginning
\* of the trace, each within the retransmit window of the previous one, produce
\* one TIMEOUT failure, on the fifth event.
C7_TimeoutOnFifthStart ==
  \A a \in Registered :
     (enabled = {a} /\ nmsgs = 5 /\ InWindowRun(a, 5)) =>
        (Emitted(a, {"TIMEOUT"}) /\ lastpub[TimeoutName(a)] = 1)

\* C7, amended: six such start events (the first and five re-emissions)
\* produce exactly one TIMEOUT failure, on the sixth event; up to five produce
\* none.
C7_TimeoutOnSixthStart ==
  \A a \in Registered : \A k \in 1..6 :
     (enabled = {a} /\ nmsgs = k /\ InWindowRun(a, k)) =>
        IF k = 6
        THEN StateOf(a).out = <<[name |-> TimeoutName(a), value |-> 1]>>
        ELSE lastpub[TimeoutName(a)] = NoPub /\ StateOf(a).timeouts = k - 1

\* six identification requests one second apart
C7_Witness ==
  /\ enabled = {"Identification"}
  /\ starts = <<1, 2, 3, 4, 5, 6>>
  /\ lastpub[Name("IDENTIFY", "TIMEOUT")] = 1

\* C8: the strike counter of every analyzer is at most 5 in every reachable
\* state and is never left at 5 once a message has been handled.
C8_StrikesBelowLimit ==
  \A a \in Registered : StateOf(a).timeouts < StrikeLimit

\* four strikes are on record
C8_Witness == \E a \in enabled : StateOf(a).timeouts = StrikeLimit - 1

\* the procedure of analyzer a is pending, and since when
Pending(a) ==
  CASE a = "Identification" -> ident.pending_id
    [] a = "Security" -> sec.pending_security_mode
    [] a = "GUTI" -> guti.pending_guti
    [] a = "Authentication" -> auth.pending_auth
    [] a = "Attach" -> att.pending_attach
    [] a = "TAU" -> tau.pending_TAU
    [] a = "Detach" -> det.pending_detach

RequestedAt(a) ==
  CASE a = "Identification" -> ident.identify_req_timestamp
    [] a = "Security" -> sec.security_mode_timestamp
    [] a = "GUTI" -> guti.guti_timestamp
    [] a = "Authentication" -> auth.auth_timestamp
    [] a = "Attach" -> att.attach_req_timestamp
    [] a = "TAU" -> tau.TAU_req_timestamp
    [] a = "Detach" -> det.detach_req_timestamp

\* C9: a start event re-emitted later than the retransmit window after the
\* recorded start resets the strike counter to 0 and emits no failure (the
\* window of GUTI reallocation is T3450 = 6 s: commands at 0, 1, 2, 3 and then
\* 10 give no TIMEOUT failure and a strike counter of 0).
C9_LateReemissionResetsStrikes ==
  [][\A a \in enabled :
        (/\ IsStartOf(a, last')
         /\ Pending(a)
         /\ RequestedAt(a) # NoneTs
         /\ last'.timestamp - RequestedAt(a) > RetransmitWindow(a))
        => (StateOf(a).timeouts' = 0 /\ StateOf(a).out' = <<>>)]_vars

\* four GUTI commands one second apart and a fifth seven seconds later
C9_Witness ==
  /\ enabled = {"GUTI"}
  /\ starts = <<1, 2, 3, 4, 11>>
  /\ guti.timeouts = 0
  /\ lastpub[Name("GUTI", "TIMEOUT")] = NoPub

HandoverName(a) ==
  CASE a = "Identification" -> Name("IDENTIFY", "HANDOVER")
    [] a = "Security" -> Name("SECURITY", "HANDOVER")
    [] a = "GUTI" -> Name("GUTI", "HANDOVER")
    [] a = "Authentication" -> Name("AUTH", "HANDOVER")
    [] a = "TAU" -> Name("TAU", "HANDOVER")
    [] a = "Detach" -> Name("DETACH", "HANDOVER")

\* m reports a re-establishment caused by a handover failure
IsHandoverFailure(m) ==
  /\ m.hasMsg
  /\ m.type_id = Rrc
  /\ \E i \in 1..Len(m.fields) :
        /\ m.fields[i].name = RrcCause
        /\ Contains("handoverFailure", m.fields[i].showname)

\* the handover is attributed to the procedure of analyzer a
Attributed(a, t) ==
  /\ Table(a)[a] # DatetimeMin
  /\ \A p \in DOMAIN Table(a) : Table(a)[p] <= Table(a)[a]
  /\ 0 <= t - Table(a)[a]
  /\ t - Table(a)[a] <= (IF a = "Detach" THEN 60 ELSE 600)

\* C10: on an RRC message whose reestablishmentCause showname contains
\* "handoverFailure", the analyzer of procedure P emits P_HANDOVER_FAILURE,
\* incremented by exactly 1, and resets its state if and only if its own table
\* entry is not the sentinel, is the maximum of its table and lies at most
\* 600 s (Detach: 60 s) before the message; otherwise it changes nothing.
C10_HandoverAttribution ==
  [][\A a \in enabled \ {"Attach"} :
        IsHandoverFailure(last') =>
           IF Attributed(a, last'.timestamp)
           THEN /\ StateOf(a).out' = <<[name |-> HandoverName(a),
                                        value |-> StateOf(a).kpi["HANDOVER"] + 1]>>
                /\ StateOf(a).kpi' = [StateOf(a).kpi EXCEPT !["HANDOVER"] = @ + 1]
                /\ Quiet(a)'
                /\ StateOf(a).timeouts' = 0
           ELSE StateOf(a)' = Idle(StateOf(a))]_vars

\* a security mode command at 100 and the handover failure at 200
C10_Witness ==
  /\ enabled = {"Security"}
  /\ nmsgs = 2
  /\ now = 200
  /\ IsHandoverFailure(last)
  /\ sec.out = <<[name |-> Name("SECURITY", "HANDOVER"), value |-> 1]>>
  /\ sec.handover_timestamps["Security"] = DatetimeMin

-----------------------------------------------------------------------------
(* The timestamp table across analyzers *)

\* the analyzers that stored a HANDOVER failure for the last message
HandoverEmitters == {a \in HandoverCapable : Emitted(a, {"HANDOVER"})}

\* C11: with the six analyzers fed the same messages, one RRC handover-failure
\* message makes at most one of them store a HANDOVER failure, and that one
\* is the analyzer whose procedure was started last and is still unfinished
C11_SingleHandoverEmitter ==
  [][(enabled = HandoverCapable /\ IsHandoverFailure(last')) =>
        /\ Cardinality(HandoverEmitters') <= 1
        /\ \A a \in HandoverEmitters' : Attributed(a, last'.timestamp)]_vars

\* C14: an analyzer's own table entry is other than the sentinel only while
\* its pending flag or its accepting flag is true
C14_OwnEntryOnlyWhileOutstanding ==
  \A a \in enabled \cap HandoverCapable :
     Table(a)[a] # DatetimeMin =>
        (Pending(a) \/ (a = "TAU" /\ tau.accepting_TAU))

\* a TAU accept was the last message: the TAU entry is held by the accepting
\* flag alone
C14_Witness ==
  /\ enabled = {"TAU"}
  /\ HasType(last, Incoming, {"73"})
  /\ Table("TAU")["TAU"] = last.timestamp
  /\ tau.accepting_TAU /\ ~tau.pending_TAU

\* message m is one of these messages, whatever its timestamp
OneOf(m, msgs) == m.hasMsg /\ At(m, 0) \in msgs

\* C12: in every analyzer's table and for every tracked procedure q, q's
\* start message sets the entry of q to the message's timestamp, and q's
\* termination message sets the entry of q to the sentinel and changes no
\* other entry
C12_TableBookkeeping ==
  [][enabled = HandoverCapable =>
       \A a \in HandoverCapable, q \in HandoverCapable :
          /\ OneOf(last', StartsOf(q)) => Table(a)'[q] = last'.timestamp
          /\ OneOf(last', EndsOf(q)) =>
                /\ Table(a)'[q] = DatetimeMin
                /\ \A p \in HandoverCapable \ {q} : Table(a)'[p] = Table(a)[p]]_vars

\* C13: fed the same messages, the six analyzers' handover_timestamps
\* mappings are equal entry by entry after every message
C13_TablesAgree ==
  enabled = HandoverCapable =>
    \A a \in HandoverCapable, b \in HandoverCapable : \A q \in HandoverCapable :
       Table(a)[q] = Table(b)[q]

-----------------------------------------------------------------------------
(* Concurrent requests and retransmissions *)

\* the TAU analyzer holds a request or an accept at most the threshold
\* before t
TauOutstandingAt(t) ==
  \/ /\ tau.pending_TAU
     /\ tau.TAU_req_timestamp # NoneTs
     /\ InWindow(t - tau.TAU_req_timestamp, TauThreshold)
  \/ /\ tau.accepting_TAU
     /\ tau.TAU_accept_timestamp # NoneTs
     /\ InWindow(t - tau.TAU_accept_timestamp, TauThreshold)

\* C15: an outgoing TAU Request sent while a TAU is pending or accepting,
\* within the threshold of the stored request or accept, whose information
\* elements differ from those of the stored message, increments
\* TAU_CONCURRENT_FAILURE by exactly 1, publishes it, and counts no timeout
\* strike for that message
C15_TauConcurrentNoStrike ==
  [][("TAU" \in enabled
        /\ HasType(last', Outgoing, {"72"})
        /\ TauOutstandingAt(last'.timestamp)
        /\ tau.prev_log # NoLog
        /\ DictDiffer(TauFr_IE(tau.prev_log), TauFr_IE(last'.fields))) =>
       /\ tau.kpi'["CONCURRENT"] = tau.kpi["CONCURRENT"] + 1
       /\ tau.out' = <<[name |-> Name("TAU", "CONCURRENT"),
                        value |-> tau.kpi["CONCURRENT"] + 1]>>
       /\ tau.kpi'["TIMEOUT"] = tau.kpi["TIMEOUT"]
       /\ tau.timeouts' = 0]_vars

\* a TAU Request and, one second later, one with another usage setting
C15_Witness ==
  /\ enabled = {"TAU"}
  /\ nmsgs = 2
  /\ last.fields = TauRequestB
  /\ lastpub[Name("TAU", "CONCURRENT")] = 1
  /\ tau.kpi["CONCURRENT"] = 1
  /\ tau.timeouts = 0
  /\ tau.pending_TAU

\* the request of a's procedure is re-emitted: a request is pending, it was
\* recorded at most the threshold before m, and m is a request with the
\* information elements of the stored one
SameRequestAgain(a, m) ==
  /\ Pending(a)
  /\ RequestedAt(a) # NoneTs
  /\ InWindow(m.timestamp - RequestedAt(a), RetransmitWindow(a))
  /\ CASE a = "Attach" ->
            /\ HasType(m, Outgoing, {"65"})
            /\ att.prev_log # NoLog
            /\ ~DictDiffer(AttachFr_IE(att.prev_log), AttachFr_IE(m.fields))
       [] a = "TAU" ->
            /\ HasType(m, Outgoing, {"72"})
            /\ tau.prev_log # NoLog
            /\ ~DictDiffer(TauFr_IE(tau.prev_log), TauFr_IE(m.fields))
       [] a = "Identification" ->
            /\ HasType(m, Outgoing, {"65"})
            /\ ident.pending_attach
            /\ ident.prev_attach_log # NoLog
            /\ ~DictDiffer(Identification_IE(ident.prev_attach_log),
                           Identification_IE(m.fields))

-----------------------------------------------------------------------------
(* Attach aborted by a Detach Request *)

\* C17: an incoming Detach Request (69) whose detach type showname contains
\* "Re-attach required", within the threshold of a pending Attach Request,
\* increments the Attach DETACH counter by 1, publishes
\* KPI_Retainability_ATTACH_DETACH_FAILURE with the new count (1 for the
\* first), and clears the Attach state
C17_AttachDetachFailure ==
  [][("Attach" \in enabled
        /\ att.pending_attach
        /\ att.attach_req_timestamp # NoneTs
        /\ InWindow(last'.timestamp - att.attach_req_timestamp, AttachThreshold)
        /\ HasType(last', Incoming, {"69"})
        /\ \E i \in 1..Len(last'.fields) :
              Contains("re-attach required", Lower(last'.fields[i].showname))) =>
       /\ att.kpi'["DETACH"] = att.kpi["DETACH"] + 1
       /\ att.out' = <<[name |-> Name("ATTACH", "DETACH"),
                        value |-> att.kpi["DETACH"] + 1]>>
       /\ ~att.pending_attach' /\ ~att.accepting_attach'
       /\ att.attach_req_timestamp' = NoneTs
       /\ att.prev_log' = NoLog]_vars

-----------------------------------------------------------------------------
(* Authentication Failure *)

\* the counter an EMM cause of an Authentication Failure is counted under
FailureKindOf(cause) ==
  IF cause = "20" THEN "MAC"
  ELSE IF cause = "21" THEN "SYNCH"
  ELSE IF cause = "26" THEN "NON_EPS"
  ELSE "EMM"

\* the positions of the cause fields of message m, and those among the first
\* j fields that count under kind k
CauseAt(m) == {i \in 1..Len(m.fields) : m.fields[i].name = EmmCause}
CountedUnder(m, k, j) ==
  {i \in CauseAt(m) : i <= j /\ FailureKindOf(m.fields[i].show) = k}

\* C18: on an outgoing Authentication Failure (92), each nas_eps.emm.cause
\* field increments exactly one Auth counter by 1 and publishes it, by the
\* mapping 20 -> MAC, 21 -> SYNCH, 26 -> NON_EPS, other -> EMM; no other
\* counter changes, and afterwards the Auth procedure state is reset
C18_AuthFailureCauses ==
  [][("Authentication" \in enabled /\ HasType(last', Outgoing, {"92"})) =>
       /\ \A k \in AuthKinds :
             auth.kpi'[k] =
               auth.kpi[k] + Cardinality(CountedUnder(last', k, Len(last'.fields)))
       /\ Len(auth.out') = Cardinality(CauseAt(last'))
       /\ \A i \in CauseAt(last') :
             LET k == FailureKindOf(last'.fields[i].show)
                 n == Cardinality({j \in CauseAt(last') : j <= i})
             IN  auth.out'[n] =
                   [name |-> Name("AUTH", k),
                    value |-> auth.kpi[k] + Cardinality(CountedUnder(last', k, i))]
       /\ Quiet("Authentication")'
       /\ auth.auth_timestamp' = NoneTs
       /\ auth.prev_log' = NoLog
       /\ auth.timeouts' = 0]_vars

\* an Authentication Request, then an Authentication Failure with cause 20
C18_Witness ==
  /\ enabled = {"Authentication"}
  /\ nmsgs = 2
  /\ last.fields = AuthFailure
  /\ auth.out = <<[name |-> Name("AUTH", "MAC"), value |-> 1]>>
  /\ \A k \in AuthKinds \ {"MAC"} : auth.kpi[k] = 0
  /\ ~auth.pending_auth

-----------------------------------------------------------------------------
(* Exceptions *)

\* C19: no callback raises, whatever the sequence of messages
C19_NeverRaises == ~crashed

-----------------------------------------------------------------------------
(* Terminating events handled twice *)

\* m is a terminating event of a's procedure
IsTerminalOf(a, m) ==
  CASE a = "Identification" -> HasType(m, Outgoing, {"86"})
    [] a = "Security" -> HasType(m, Outgoing, {"94", "95"})
    [] a = "GUTI" -> HasType(m, Outgoing, {"81"})
    [] a = "Authentication" -> \/ HasType(m, Outgoing, {"83", "92"})
                               \/ HasType(m, Incoming, {"84"})
    [] a = "Detach" -> \/ HasType(m, Outgoing, {"70"})
                       \/ HasType(m, Incoming, {"70"})
    [] a = "Attach" -> HasType(m, Outgoing, {"67"})
    [] a = "TAU" -> \/ HasType(m, Outgoing, {"74"})
                    \/ HasType(m, Incoming, {"75"})

\* the procedure state of analyzer a: everything it holds but its counters,
\* the calls of the last message and the table entries of other procedures
ProcState(a) ==
  [StateOf(a) EXCEPT !.out = <<>>, !.exc = FALSE,
                     !.kpi = [k \in DOMAIN StateOf(a).kpi |-> 0],
                     !.handover_timestamps = <<Table(a)[a]>>]

\* C20: handling the same terminating event twice in a row leaves the
\* analyzer in the procedure state it had after handling it once
C20_TerminalIdempotent ==
  [][\A a \in enabled :
        (/\ IsTerminalOf(a, last) /\ IsTerminalOf(a, last')
         /\ last'.type_id = last.type_id
         /\ last'.fields = last.fields) =>
           ProcState(a)' = ProcState(a)]_vars

\* two Authentication Failures with cause 20 in a row, each counted under MAC
C20_Witness ==
  /\ enabled = {"Authentication"}
  /\ nmsgs = 2
  /\ last.fields = AuthFailure
  /\ auth.kpi["MAC"] = 2
  /\ Quiet("Authentication")
  /\ auth.prev_log = NoLog

-----------------------------------------------------------------------------
(* Messages an analyzer has no branch for *)

\* the EMM message types analyzer a reacts to in a direction
Referenced(a, type_id) ==
  LET tables == {"69", "70", "75", "80", "82", "84", "85", "93"}
      ends == {"69", "70", "72", "74", "81", "83", "86", "92", "94", "95"}
  IN  CASE type_id = Incoming ->
             (CASE a = "Identification" -> tables \cup {"68", "78", "79"}
                [] a \in {"Security", "Authentication"} -> tables \cup {"78", "79"}
                [] a \in {"GUTI", "Detach"} -> tables
                [] a = "TAU" -> tables \cup {"73"}
                [] a = "Attach" -> {"66", "68", "69"})
        [] type_id = Outgoing ->
             (CASE a = "Identification" -> ends \cup {"65", "67", "255"}
                [] a \in {"Security", "GUTI"} -> ends \cup {"65", "255"}
                [] a = "Authentication" -> ends \cup {"255"}
                [] a = "Detach" -> ends \cup {"65"}
                [] a = "TAU" -> ends
                [] a = "Attach" -> {"65", "67", "69"})
        [] OTHER -> {}

\* m gives analyzer a nothing to react to: no payload, no message-type field
\* (for RRC: no reestablishment cause), or a type a has no branch for
NothingFor(a, m) ==
  \/ ~m.hasMsg
  \/ IF m.type_id = Rrc
     THEN \A i \in 1..Len(m.fields) : m.fields[i].name # RrcCause
     ELSE \A i \in 1..Len(m.fields) :
             m.fields[i].name = EmmType =>
                m.fields[i].show \notin Referenced(a, m.type_id)

\* C21: a message without "Msg" payload, or without a message-type field
\* (RRC: without reestablishment cause), or of a type the analyzer does not
\* reference, leaves the analyzer's flags, instants, strike counter, prev_log,
\* table and counters unchanged and publishes nothing
C21_UnreferencedIsNoOp ==
  [][\A a \in enabled :
        NothingFor(a, last') => StateOf(a)' = Idle(StateOf(a))]_vars

-----------------------------------------------------------------------------
(* The correlation window *)

\* the correlation rule with a window of w seconds (Detach: wd seconds): a
\* request colliding with a pending GUTI or Security procedure is counted, and
\* a re-emitted Detach, Security or Identification request is a strike, exactly
\* when it comes at most the window after the pending request
WindowRule(w, wd) ==
  /\ ("GUTI" \in enabled
        /\ guti.pending_guti /\ guti.guti_timestamp # NoneTs
        /\ HasType(last', Outgoing, {"65", "69", "72", "255"})) =>
       guti.kpi'["COLLISION"] = guti.kpi["COLLISION"] +
          (IF InWindow(last'.timestamp - guti.guti_timestamp, w) THEN 1 ELSE 0)
  /\ ("Security" \in enabled
        /\ sec.pending_security_mode /\ sec.security_mode_timestamp # NoneTs
        /\ HasType(last', Outgoing, {"65", "72", "255"})) =>
       sec.kpi'["COLLISION"] = sec.kpi["COLLISION"] +
          (IF InWindow(last'.timestamp - sec.security_mode_timestamp, w)
           THEN 1 ELSE 0)
  /\ \A a \in enabled \cap {"Identification", "Security", "Detach"} :
        (/\ IsStartOf(a, last')
         /\ Pending(a) /\ RequestedAt(a) # NoneTs
         /\ a = "Identification" => ~ident.pending_TAU /\ ~ident.pending_service
         /\ a = "Security" => ~sec.pending_TAU /\ ~sec.pending_service) =>
          StateOf(a).timeouts' =
            IF InWindow(last'.timestamp - RequestedAt(a),
                        IF a = "Detach" THEN wd ELSE w)
            THEN (StateOf(a).timeouts + 1) % StrikeLimit
            ELSE 0

-----------------------------------------------------------------------------
(* The state after a procedure-start event *)

\* m is a start event of a's procedure
IsStartEvent(a, m) ==
  CASE a = "Identification" -> HasType(m, Incoming, {"85"})
    [] a = "Security" -> HasType(m, Incoming, {"93"})
    [] a = "GUTI" -> HasType(m, Incoming, {"80"})
    [] a = "Authentication" -> HasType(m, Incoming, {"82"})
    [] a = "Detach" -> HasType(m, Incoming, {"69"}) \/ HasType(m, Outgoing, {"69"})
    [] a = "Attach" -> HasType(m, Outgoing, {"65"})
    [] a = "TAU" -> HasType(m, Outgoing, {"72"})

\* the request analyzer a keeps for comparison, if it keeps one
PrevLogOf(a) ==
  IF "prev_log" \in DOMAIN StateOf(a) THEN StateOf(a).prev_log ELSE NoLog

\* the strike counter after a step that handled a start event: the counter
\* before it, that plus one, or 0
StrikesUpdated(a) ==
  StateOf(a).timeouts' \in {0, StateOf(a).timeouts, StateOf(a).timeouts + 1}

-----------------------------------------------------------------------------
(* Rejects *)

\* the reject of a's procedure, and a's accepting flag
RejectOf(a) == IF a = "Attach" THEN "68" ELSE "75"
Accepting(a) == IF a = "Attach" THEN att.accepting_attach ELSE tau.accepting_TAU

\* the counter a reject carrying cause c is counted under, "" for none
RejectKind(c, t3346) ==
  IF c \in {"96", "99", "100", "111"} THEN "PROTOCOL_ERROR"
  ELSE IF c = "22" THEN (IF t3346 THEN "EMM" ELSE "")
  ELSE "EMM"

\* C24: an incoming reject (Attach Reject 68 in the Attach analyzer, TAU
\* Reject 75 in the TAU analyzer) with one cause field increments
\* PROTOCOL_ERROR by 1 for a cause in {96, 99, 100, 111}, EMM by 1 for cause 22
\* with a T3346 subfield or for any other cause, nothing for cause 22 without
\* T3346, and always clears the pending and accepting state
C24_RejectCauses ==
  [][\A a \in enabled \cap {"Attach", "TAU"} :
        (/\ HasType(last', Incoming, {RejectOf(a)})
         /\ Cardinality(CauseAt(last')) = 1) =>
          LET c == last'.fields[CHOOSE i \in CauseAt(last') : TRUE].show
              t3346 == \E i \in 1..Len(last'.fields) :
                          /\ last'.fields[i].showname # None
                          /\ Contains("T3346", last'.fields[i].showname)
              k == RejectKind(c, t3346)
          IN  /\ \A x \in DOMAIN StateOf(a).kpi :
                    StateOf(a).kpi'[x] =
                      StateOf(a).kpi[x] + (IF x = k THEN 1 ELSE 0)
              /\ ~Pending(a)' /\ ~Accepting(a)']_vars

-----------------------------------------------------------------------------
(* Attach Accept re-emitted *)

\* C25: in the Attach analyzer, an Attach Accept (66) re-emitted within the
\* threshold of the previous accept, with no Attach Complete in between,
\* counts one strike, and the fifth strike stores ATTACH_TIMEOUT_FAILURE
C25_AttachAcceptStrikes ==
  [][("Attach" \in enabled
        /\ att.accepting_attach
        /\ att.attach_accept_timestamp # NoneTs
        /\ HasType(last', Incoming, {"66"})
        /\ InWindow(last'.timestamp - att.attach_accept_timestamp,
                    AttachThreshold)) =>
       IF att.timeouts + 1 = StrikeLimit
       THEN /\ att.out' = <<[name |-> Name("ATTACH", "TIMEOUT"),
                             value |-> att.kpi["TIMEOUT"] + 1]>>
            /\ att.timeouts' = 0
       ELSE /\ att.out' = <<>>
            /\ att.timeouts' = att.timeouts + 1]_vars

-----------------------------------------------------------------------------
(* The fingerprint of an Attach Request *)

\* C26: the Attach analyzer compares the seven mandatory information
\* elements of an Attach Request (protocol discriminator, security header
\* type, message type, attach type, key set identifier, type of identity,
\* ESM message container): a second Attach Request within the threshold of a
\* pending one stores ATTACH_CONCURRENT_FAILURE exactly when the two differ in
\* the showname of one of the seven, whatever other fields differ
C26_AttachFingerprint ==
  [][("Attach" \in enabled
        /\ att.pending_attach
        /\ att.attach_req_timestamp # NoneTs
        /\ att.prev_log # NoLog
        /\ HasType(last', Outgoing, {"65"})
        /\ InWindow(last'.timestamp - att.attach_req_timestamp,
                    AttachThreshold)) =>
       att.kpi'["CONCURRENT"] = att.kpi["CONCURRENT"] +
          (IF DictDiffer(Identification_IE(att.prev_log),
                         Identification_IE(last'.fields))
           THEN 1 ELSE 0)]_vars

-----------------------------------------------------------------------------
(* Detach collisions *)

\* the stored Detach Request has a detach type containing the needle; it
\* carries cause 2
StoredType(fields, needle) ==
  \E i \in 1..Len(fields) :
     /\ fields[i].showname # None
     /\ Contains(needle, Lower(fields[i].showname))
StoredCauseIs2(fields) ==
  \E i \in 1..Len(fields) : fields[i].name = EmmCause /\ fields[i].show = "2"

\* the collision matrix of a stored Detach Request against an Attach Request
\* and against a TAU Request
CollidesWithAttach(fields) ==
  \/ StoredType(fields, "re-attach not required") /\ ~StoredCauseIs2(fields)
  \/ StoredType(fields, "imsi detach") /\ ~StoredCauseIs2(fields)
  \/ StoredType(fields, "re-attach required")
CollidesWithTau(fields) ==
  \/ StoredType(fields, "re-attach not required") /\ StoredCauseIs2(fields)
  \/ StoredType(fields, "imsi detach")

\* C27: in the Detach analyzer an outgoing Attach Request or TAU Request
\* within the threshold of a pending Detach Request stores
\* DETACH_COLLISION_FAILURE exactly when the stored request matches the
\* matrix: a "Re-attach not required" detach with cause 2 collides with a TAU
\* Request and not with an Attach Request
C27_DetachCollisionMatrix ==
  [][("Detach" \in enabled
        /\ det.pending_detach
        /\ det.detach_req_timestamp # NoneTs
        /\ det.prev_log # NoLog
        /\ InWindow(last'.timestamp - det.detach_req_timestamp, DetachThreshold)
        /\ HasType(last', Outgoing, {"65", "72"})) =>
       det.kpi'["COLLISION"] = det.kpi["COLLISION"] +
          (IF IF HasType(last', Outgoing, {"65"})
              THEN CollidesWithAttach(det.prev_log)
              ELSE CollidesWithTau(det.prev_log)
           THEN 1 ELSE 0)]_vars

-----------------------------------------------------------------------------
(* TAU aborted by a Detach Request *)

\* a Detach Request from the network aborts a pending TAU: its detach type
\* is "Re-attach required", or "Re-attach not required" with a cause other
\* than 2
AbortsTau(fields) ==
  \/ StoredType(fields, "re-attach required")
  \/ StoredType(fields, "re-attach not required") /\ ~StoredCauseIs2(fields)

\* C28: in the TAU analyzer, while a TAU Request is pending, an incoming
\* Detach Request counts TAU_DETACH_FAILURE exactly when its detach type
\* contains "Re-attach required", or "Re-attach not required" with a cause
\* other than 2, and an outgoing Detach Request exactly when a subfield
\* showname contains "Switch off"; each counted case resets the TAU state
C28_TauDetachFailure ==
  [][("TAU" \in enabled
        /\ tau.pending_TAU /\ tau.TAU_req_timestamp # NoneTs
        /\ (HasType(last', Incoming, {"69"}) \/ HasType(last', Outgoing, {"69"}))) =>
       LET counted ==
             IF last'.type_id = Incoming
             THEN AbortsTau(last'.fields)
             ELSE \E i \in 1..Len(last'.fields) :
                     /\ last'.fields[i].showname # None
                     /\ Contains("Switch off", last'.fields[i].showname)
       IN  IF counted
           THEN /\ tau.kpi'["DETACH"] = tau.kpi["DETACH"] + 1
                /\ ~tau.pending_TAU' /\ ~tau.accepting_TAU'
                /\ tau.TAU_req_timestamp' = NoneTs
                /\ tau.timeouts' = 0
           ELSE /\ tau.kpi'["DETACH"] = tau.kpi["DETACH"]
                /\ tau.pending_TAU']_vars

-----------------------------------------------------------------------------
(* Requests colliding with a pending Security Mode Command *)

\* a subfield of m has a showname containing "Switch off"
HasSwitchOff(m) ==
  \E i \in 1..Len(m.fields) :
     /\ m.fields[i].showname # None
     /\ Contains("Switch off", m.fields[i].showname)

\* C29: in the Security Mode analyzer, within the threshold of a pending
\* Security Mode Command, an outgoing Detach Request (69) stores
\* SECURITY_COLLISION_FAILURE only if none of its subfields' shownames contains
\* "Switch off", one that does counts nothing and leaves the procedure
\* pending, and an outgoing 65, 72 or 255 counts exactly one collision and
\* resets the state
C29_SecurityCollision ==
  [][("Security" \in enabled
        /\ sec.pending_security_mode
        /\ sec.security_mode_timestamp # NoneTs
        /\ InWindow(last'.timestamp - sec.security_mode_timestamp,
                    SecurityThreshold)) =>
       /\ (HasType(last', Outgoing, {"69"}) /\ HasSwitchOff(last')) =>
             /\ sec.kpi'["COLLISION"] = sec.kpi["COLLISION"]
             /\ sec.out' = <<>>
             /\ sec.pending_security_mode'
       /\ HasType(last', Outgoing, {"65", "72", "255"}) =>
             /\ sec.kpi'["COLLISION"] = sec.kpi["COLLISION"] + 1
             /\ sec.out' = <<[name |-> Name("SECURITY", "COLLISION"),
                              value |-> sec.kpi["COLLISION"] + 1]>>
             /\ ~sec.pending_security_mode'
             /\ sec.security_mode_timestamp' = NoneTs]_vars

-----------------------------------------------------------------------------
(* Security Mode Command after a Service Request *)

\* C30: in the Security Mode analyzer an outgoing Service Request (255) sent
\* while no Security Mode procedure is pending sets pending_service, and a
\* Security Mode Command re-emitted within the threshold while the procedure
\* and the service request are pending adds 1 to
\* SECURITY_TRANSMISSION_SERVICE_FAILURE and stores it
C30_TransmissionServiceReachable ==
  [][("Security" \in enabled) =>
       /\ (~sec.pending_security_mode /\ HasType(last', Outgoing, {"255"})) =>
             sec.pending_service'
       /\ (/\ sec.pending_security_mode /\ sec.pending_service
           /\ sec.security_mode_timestamp # NoneTs
           /\ HasType(last', Incoming, {"93"})
           /\ InWindow(last'.timestamp - sec.security_mode_timestamp,
                       SecurityThreshold)) =>
             /\ sec.kpi'["TRANSMISSION_SERVICE"] =
                  sec.kpi["TRANSMISSION_SERVICE"] + 1
             /\ sec.out' = <<[name |-> Name("SECURITY", "TRANSMISSION_SERVICE"),
                              value |-> sec.kpi["TRANSMISSION_SERVICE"] + 1]>>]_vars

-----------------------------------------------------------------------------
(* Requests colliding with a pending Identification *)

\* an Identification Request is pending; it was recorded at most w seconds
\* before t
IdentifyPendingWithin(t, w) ==
  /\ ident.pending_id
  /\ ident.identify_req_timestamp # NoneTs
  /\ InWindow(t - ident.identify_req_timestamp, w)

\* the collision rule of the Identification analyzer where a request collides
\* with an Identification recorded at most w seconds before it
IdentifyCollisionRule(w) ==
  ("Identification" \in enabled) =>
    /\ (/\ HasType(last', Outgoing, {"65"})
        /\ IdentifyPendingWithin(last'.timestamp, w)
        /\ ~ident.pending_attach) =>
          /\ ident.kpi'["COLLISION"] = ident.kpi["COLLISION"] + 1
          /\ ident.out' = <<[name |-> Name("IDENTIFY", "COLLISION"),
                             value |-> ident.kpi["COLLISION"] + 1]>>
          /\ ~ident.pending_id'
          /\ ident.identify_req_timestamp' = NoneTs
          /\ Table("Identification")'["Identification"] = DatetimeMin
    /\ (HasType(last', Outgoing, {"69"})
          /\ IdentifyPendingWithin(last'.timestamp, w)) =>
          IF HasSwitchOff(last')
          THEN ident.kpi'["COLLISION"] > ident.kpi["COLLISION"]
          ELSE ident.kpi'["COLLISION"] = ident.kpi["COLLISION"]
    /\ (~ident.pending_id /\ last'.type_id = Outgoing) =>
          ident.kpi'["COLLISION"] = ident.kpi["COLLISION"]

\* C31 (as stated): an outgoing Attach Request while an Identification is
\* pending and no Attach is pending counts IDENTIFY_COLLISION_FAILURE once and
\* resets the Identification state, an outgoing Detach Request while an
\* Identification is pending counts it if and only if a subfield showname
\* contains "Switch off", however long the Identification has been pending
C31_IdentifyCollisionAnyTime == [][IdentifyCollisionRule(1000000)]_vars

\* C31 (as built): the same for a request at most the threshold (30 s) after
\* the Identification Request; a later request counts no collision and leaves
\* the Identification pending
C31_IdentifyCollisionInWindow ==
  [][/\ IdentifyCollisionRule(IdentifyThreshold)
     /\ ("Identification" \in enabled
           /\ HasType(last', Outgoing, {"65", "69"})
           /\ ident.pending_id
           /\ ident.identify_req_timestamp # NoneTs
           /\ last'.timestamp - ident.identify_req_timestamp > IdentifyThreshold) =>
          /\ ident.kpi'["COLLISION"] = ident.kpi["COLLISION"]
          /\ ident.pending_id']_vars

\* an Identification Request and an Attach Request one second later: one
\* collision, the Identification state reset
C31_Witness ==
  /\ enabled = {"Identification"}
  /\ nmsgs = 2
  /\ HasType(last, Outgoing, {"65"})
  /\ ident.out = <<[name |-> Name("IDENTIFY", "COLLISION"), value |-> 1]>>
  /\ ~ident.pending_id
  /\ ident.pending_attach

-----------------------------------------------------------------------------
(* The secondary flags of the Identification analyzer *)

\* C32: in the Identification analyzer pending_TAU (pending_service) becomes
\* true only on an outgoing TAU Request (Service Request) handled while no
\* Identification is pending, and is cleared by a TAU Complete or TAU Reject
\* (Service Accept or Reject); IDENTIFY_TRANSMISSION_TAU_FAILURE
\* (_SERVICE_) is stored only on an Identification Request that arrives while
\* an Identification is pending and the flag of such an earlier, still open
\* request is set
C32_SecondaryFlags ==
  [][("Identification" \in enabled) =>
       /\ (~ident.pending_TAU /\ ident.pending_TAU') =>
             (HasType(last', Outgoing, {"72"}) /\ ~ident.pending_id)
       /\ (~ident.pending_service /\ ident.pending_service') =>
             (HasType(last', Outgoing, {"255"}) /\ ~ident.pending_id)
       /\ (HasType(last', Outgoing, {"74"}) \/ HasType(last', Incoming, {"75"})) =>
             ~ident.pending_TAU'
       /\ HasType(last', Incoming, {"78", "79"}) => ~ident.pending_service'
       /\ Emitted("Identification", {"TRANSMISSION_TAU"})' =>
             /\ HasType(last', Incoming, {"85"})
             /\ ident.pending_id /\ ident.pending_TAU
       /\ Emitted("Identification", {"TRANSMISSION_SERVICE"})' =>
             /\ HasType(last', Incoming, {"85"})
             /\ ident.pending_id /\ ident.pending_service]_vars

\* a TAU Request, an Identification Request and the Identification Request
\* again: the re-emission is charged to the TAU
C32_Witness ==
  /\ enabled = {"Identification"}
  /\ nmsgs = 3
  /\ HasType(last, Incoming, {"85"})
  /\ ident.out = <<[name |-> Name("IDENTIFY", "TRANSMISSION_TAU"), value |-> 1]>>
  /\ ident.pending_id /\ ~ident.pending_TAU

-----------------------------------------------------------------------------
(* Causes of a Detach Request from the network *)

\* C33: in the Detach analyzer an incoming Detach Request carrying k >= 1
\* nas_eps.emm.cause subfields adds exactly k to DETACH_EMM_FAILURE, stores
\* one value per cause, each the new running total, leaves the strike counter
\* at 0 and counts no timeout for the message; one carrying no cause leaves
\* the EMM counter alone
C33_DetachEmmPerCause ==
  [][("Detach" \in enabled /\ HasType(last', Incoming, {"69"})) =>
       LET k == Cardinality(CauseAt(last'))
       IN  /\ det.kpi'["EMM"] = det.kpi["EMM"] + k
           /\ k >= 1 =>
                /\ det.out' = [n \in 1..k |->
                                 [name |-> Name("DETACH", "EMM"),
                                  value |-> det.kpi["EMM"] + n]]
                /\ det.timeouts' = 0
                /\ det.kpi'["TIMEOUT"] = det.kpi["TIMEOUT"]
                /\ det.pending_detach'
                /\ det.detach_req_timestamp' = last'.timestamp]_vars

\* a Detach Request, then one with causes 2 and 3 a second later
C33_Witness ==
  /\ enabled = {"Detach"}
  /\ nmsgs = 2
  /\ last.fields = <<Emm("69"), Cause("2"), Cause("3")>>
  /\ det.out = <<[name |-> Name("DETACH", "EMM"), value |-> 1],
                 [name |-> Name("DETACH", "EMM"), value |-> 2]>>
  /\ det.timeouts = 0
  /\ det.pending_detach

\* the instant of the accept the two-phase analyzer a last received
AcceptedAt(a) ==
  IF a = "Attach" THEN att.attach_accept_timestamp ELSE tau.TAU_accept_timestamp

\* the incoming accept of analyzer a leaves its flags, instants and table
\* entry as they were when no request of a is pending
AcceptIgnoredIdle(a) ==
  (/\ HasType(last', Incoming, {IF a = "Attach" THEN "66" ELSE "73"})
   /\ ~Pending(a))
  => /\ Pending(a)' = Pending(a)
     /\ Accepting(a)' = Accepting(a)
     /\ RequestedAt(a)' = RequestedAt(a)
     /\ AcceptedAt(a)' = AcceptedAt(a)
     /\ Table(a)'[a] = Table(a)[a]

\* C34: an incoming accept (Attach Accept 66 in the Attach analyzer, TAU
\* Accept 73 in the TAU analyzer) received while no request of that procedure
\* is pending leaves the analyzer's flags, instants and table entry unchanged:
\* the accepting phase is entered only from the pending phase
C34_AcceptOnlyFromPending ==
  [][\A a \in enabled \cap {"Attach", "TAU"} : AcceptIgnoredIdle(a)]_vars

\* the sum of the failure counters of analyzer a
KpiTotal(a) ==
  LET k == StateOf(a).kpi
      sum[S \in SUBSET DOMAIN k] ==
        IF S = {} THEN 0
        ELSE LET x == CHOOSE x \in S : TRUE IN k[x] + sum[S \ {x}]
  IN  sum[DOMAIN k]

\* message m takes a path of analyzer a that counts once per cause field
PerCausePath(a, m) ==
  \/ a = "Detach" /\ HasType(m, Incoming, {"69"})
  \/ a = "Authentication" /\ HasType(m, Outgoing, {"92"})
  \/ a \in {"Attach", "TAU"} /\ HasType(m, Incoming, {"68", "75"})

\* C35: handling one message increments an analyzer's failure counters by at
\* most 1 in total, except on the per-cause paths (Detach EMM on incoming 69,
\* Auth failure causes on outgoing 92, reject causes on 68/75): a single
\* outgoing Detach Request increments SECURITY_COLLISION, IDENTIFY_COLLISION
\* or TAU_DETACH at most once, however many of its subfields match, and a
\* single outgoing Attach/TAU Request increments DETACH_COLLISION at most once
C35_OneFailurePerMessage ==
  [][\A a \in enabled :
        ~PerCausePath(a, last') => KpiTotal(a)' <= KpiTotal(a) + 1]_vars

-----------------------------------------------------------------------------
(* Re-emitted start events while a Service or TAU Request is noted *)

\* the analyzers that note a Service Request or a TAU Request sent while
\* their procedure is not pending
Noting == {"Identification", "Security", "Authentication"}

\* analyzer a has noted a Service Request or a TAU Request
Flagged(a) == StateOf(a).pending_service \/ StateOf(a).pending_TAU

\* C36: in the Identification, Security and Auth analyzers a re-emitted start
\* event handled while the procedure is pending and pending_service or
\* pending_TAU is set is never counted as a timeout strike; with both flags
\* set it is charged to TRANSMISSION_SERVICE only, never to TRANSMISSION_TAU;
\* while either flag is set the strike counter is 0 and no TIMEOUT failure is
\* emitted
C36_FlaggedNeverStrikes ==
  [][\A a \in enabled \cap Noting :
       /\ Flagged(a)' => StateOf(a).timeouts' = 0
       /\ (Pending(a) /\ Flagged(a) /\ IsStartEvent(a, last')) =>
            /\ StateOf(a).timeouts' = 0
            /\ StateOf(a).kpi'["TIMEOUT"] = StateOf(a).kpi["TIMEOUT"]
            /\ ~Emitted(a, {"TIMEOUT"})'
            /\ StateOf(a).pending_service =>
                 /\ StateOf(a).kpi'["TRANSMISSION_TAU"] =
                      StateOf(a).kpi["TRANSMISSION_TAU"]
                 /\ ~Emitted(a, {"TRANSMISSION_TAU"})'
                 /\ InWindow(last'.timestamp - RequestedAt(a), 30) =>
                      /\ StateOf(a).kpi'["TRANSMISSION_SERVICE"] =
                           StateOf(a).kpi["TRANSMISSION_SERVICE"] + 1
                      /\ Emitted(a, {"TRANSMISSION_SERVICE"})']_vars

\* the Identification analyzer noted a TAU Request and a Service Request,
\* then saw the Identity Request twice: the second is charged to the Service
\* Request alone
C36_Witness ==
  /\ enabled = {"Identification"}
  /\ nmsgs = 4
  /\ HasType(last, Incoming, {"85"})
  /\ ident.out = <<[name |-> Name("IDENTIFY", "TRANSMISSION_SERVICE"), value |-> 1]>>
  /\ ident.kpi["TRANSMISSION_TAU"] = 0
  /\ ident.timeouts = 0
  /\ ident.pending_id

-----------------------------------------------------------------------------
(* Independence of the registered analyzers *)

-----------------------------------------------------------------------------
(* Flags and their instants *)

\* the pending flag of analyzer a is set exactly when its request instant is
FlagMatchesInstant(a) ==
  /\ Pending(a) <=> RequestedAt(a) # NoneTs
  /\ a \in {"Attach", "TAU"} => (Accepting(a) <=> AcceptedAt(a) # NoneTs)

\* C38: in every reachable state of every analyzer each pending/accepting
\* flag is true exactly when its associated instant is set: pending_req <=>
\* request_sent_at # None and accepting <=> accept_received_at # None
C38_FlagsMatchInstants ==
  \A a \in enabled : FlagMatchesInstant(a)

\* the Attach analyzer after a request and its accept: accepting with the
\* accept's instant, no longer pending and without a request instant
C38_Witness ==
  /\ enabled = {"Attach"}
  /\ nmsgs = 2
  /\ HasType(last, Incoming, {"66"})
  /\ att.accepting_attach /\ att.attach_accept_timestamp = last.timestamp
  /\ ~att.pending_attach /\ att.attach_req_timestamp = NoneTs

-----------------------------------------------------------------------------
(* The stored previous message *)

\* analyzer a holds the message its comparison or detach-type lookup reads
\* whenever a flag that guards the lookup is set
PrevMessageKept(a) ==
  CASE a \in {"Attach", "TAU"} ->
         (Pending(a) \/ Accepting(a)) => StateOf(a).prev_log # NoLog
    [] a = "Detach" -> det.pending_detach => det.prev_log # NoLog
    [] a = "Identification" -> ident.pending_attach => ident.prev_attach_log # NoLog
    [] OTHER -> TRUE

\* C39: whenever an analyzer that performs IE comparison or detach-type
\* lookup has a pending or accepting flag set, its stored previous message is
\* present: in Attach and TAU (pending or accepting) implies prev_log # None,
\* in Detach pending_detach implies prev_log # None, in Identification
\* pending_attach implies prev_attach_log is a stored message
C39_PrevMessagePresent ==
  \A a \in enabled : PrevMessageKept(a)

=============================================================================
